---- MODULE Spec2Model ----
(***************************************************************************)
(* Model of the knowledge-base service: the dual-backend vector store      *)
(* (PGVectorStore / MongoVectorStore), the ingestion orchestrators         *)
(* (transcript.ingest.run, dl.ingest.run) with the sync-state tracker, and *)
(* the text chunker (chunk_text), the Store facade (PGStore / MongoStore:   *)
(* connect, close, setup, accessors) with the metadata store behind it,    *)
(* the PDF pipeline over the file records, and the parsers                 *)
(* (TranscriptParser.parse with chunk_utterances, parse_pdf).              *)
(*                                                                         *)
(* The specifications of the module:                                       *)
(*   SpecStore      insert / search / delete on one vector store           *)
(*   SpecIngest     runs of the two orchestrators over the store           *)
(*   SpecChunk      the loop of chunk_text                                 *)
(*   SpecChunkLive  SpecChunk with the loop running to completion          *)
(*   SpecLife       the lifecycle of the Store and its metadata store      *)
(*   SpecFile       runs of the PDF pipeline over the file records         *)
(*   SpecDoc        calls of the Document Service (add, search)            *)
(*   SpecSync       scheduled transcript runs over a growing upstream      *)
(*   SpecFileLive   SpecFile with every started step running on            *)
(*   SpecRefresh    distribution-list runs over a store with other rows    *)
(*   SpecParse      one call of a parser on one input                      *)
(* Each keeps the variables of the other parts at their initial values.    *)
(***************************************************************************)
EXTENDS Integers, Sequences, FiniteSets, TLC

VARIABLES
    backend,    \* env.STORE_TYPE: "postgres" or "mongo", fixed for the process
    kb,         \* rows of the knowledge_base table / collection
    next_id,    \* next id the backend hands out (BIGSERIAL / ObjectId)
    ret,        \* what the last VectorStore call was given and returned
    clients,    \* clients of the pg Pool that are checked out and not released
    now,        \* the clock (Date.now()), in hours
    sync,       \* the sync_state table / collection: job_name -> optional record
    upstream,   \* the transcripts Microsoft Graph holds
    groups,     \* the distribution lists Microsoft Graph holds
    run,        \* per caller: the run() it is executing, with its locals
    text,       \* chunk_text: the text argument, a sequence of characters
    copts,      \* chunk_text: the options argument {chunk_size?, chunk_overlap?}
    start,      \* chunk_text: let start
    index,      \* chunk_text: let index
    chunks,     \* chunk_text: const chunks
    cpc,        \* chunk_text: "idle", "loop" (at the while test) or "done" (returned)
    pool,       \* PGStore.pool / MongoStore.db: TRUE when set, FALSE when null
    lpc,        \* the connect() or close() in flight and the await it is at
    connected,  \* the last connect() resolved and close() was not called since
    schema,     \* the schema objects of the database: name -> optional dimensions
    meta_rows,  \* rows of the sync_state table / collection behind a MetaStore
    lret,       \* what the last call on the Store or MetaStore was given and returned
    files,      \* the files table / collection: the record of id i at index i
    pruns,      \* the pdf run() started for each file record, with its locals
    dcall,      \* what the last Document Service call did and returned
    pin,        \* what a parser is called with: parsed VTT utterances, or a PDF
    pout        \* what the parser returned, None before the call

storeVars == <<backend, kb, next_id, ret, clients>>
ingestVars == <<now, sync, upstream, groups, run>>
chunkVars == <<text, copts, start, index, chunks, cpc>>
lifeVars == <<pool, lpc, connected, schema, meta_rows, lret>>
fileVars == <<files, pruns>>
docVars == <<dcall>>
parseVars == <<pin, pout>>
restVars == <<lifeVars, fileVars, docVars, parseVars>>

(***************************************************************************)
(* Bounds of the model.                                                    *)
(***************************************************************************)
MaxDocs == 2        \* ids a store hands out in SpecStore
MaxItems == 3       \* transcripts upstream
MaxLists == 2       \* distribution lists upstream

(***************************************************************************)
(* Optional values: an absent (undefined) field is None, a present one is  *)
(* Some(v).  `x || d` and `if (x)` test JavaScript truthiness: undefined,  *)
(* 0 and "" are falsy.                                                     *)
(***************************************************************************)
None == <<>>
Some(v) == <<v>>

TruthyNum(o) == o # None /\ o[1] # 0
TruthyStr(o) == o # None /\ o[1] # ""

Min2(a, b) == IF a <= b THEN a ELSE b
Max2(a, b) == IF a >= b THEN a ELSE b

Backends == {"postgres", "mongo"}

TRANSCRIPT == "transcript"
DISTRIBUTION_LIST == "distribution_list"
PDF == "pdf"

(***************************************************************************)
(* Documents.  Embeddings are unit vectors in the plane at multiples of 60 *)
(* degrees, named by the multiple; scores are in thousandths.              *)
(***************************************************************************)
Dirs == {0, 1, 2}

Metadata(st, subject, date, dl, pdf) ==
    [source_type |-> Some(st), meeting_subject |-> subject, meeting_date |-> date,
     dl_name |-> dl, pdf_filename |-> pdf]

TranscriptMeta(subject, date) == Metadata(TRANSCRIPT, Some(subject), Some(date), None, None)
DLMeta(name) == Metadata(DISTRIBUTION_LIST, None, None, Some(name), None)
PdfMeta(file) == Metadata(PDF, None, None, None, Some(file))

StoreMetas == {TranscriptMeta("standup", 1), TranscriptMeta("standup", 2), DLMeta("dl1")}

\* what a caller hands to VectorStore.insert
StoreDocs == [content : {"c"}, embedding : Dirs, metadata : StoreMetas]

Filter(st, subject, dl, pdf, from, to) ==
    [source_type |-> st, meeting_subject |-> subject, dl_name |-> dl,
     pdf_filename |-> pdf, date_from |-> from, date_to |-> to]

EmptyFilter == Filter(None, None, None, None, None, None)
SourceFilter(st) == Filter(Some(st), None, None, None, None, None)
DateFilter(from, to) == Filter(None, None, None, None, from, to)

StoreFilters ==
    {EmptyFilter, SourceFilter(DISTRIBUTION_LIST), SourceFilter(TRANSCRIPT),
     Filter(None, None, Some("dl1"), None, None, None),
     DateFilter(None, Some(1)), Filter(Some(TRANSCRIPT), None, None, None, Some(2), None)}

(***************************************************************************)
(* Filter translation.  A translated filter is a sequence of conditions    *)
(* [col, op, val] which a row must all satisfy; a row without the column   *)
(* satisfies none of them (SQL NULL, Mongo missing field).                 *)
(***************************************************************************)
Cond(present, col, op, o) ==
    IF present THEN <<[col |-> col, op |-> op, val |-> o[1]]>> ELSE <<>>

EvalCond(c, md) ==
    LET v == md[c.col] IN
    /\ v # None
    /\ CASE c.op = "=" -> v[1] = c.val
         [] c.op = ">=" -> v[1] >= c.val
         [] c.op = "<=" -> v[1] <= c.val

Matches(conds, md) == \A i \in 1..Len(conds) : EvalCond(conds[i], md)

\* a where clause that leaves date_to out
build_where_clause_no_date_to(filter) ==
    IF filter = None THEN <<>>
    ELSE LET f == filter[1] IN
         Cond(TruthyStr(f.source_type), "source_type", "=", f.source_type)
         \o Cond(TruthyStr(f.meeting_subject), "meeting_subject", "=", f.meeting_subject)
         \o Cond(TruthyStr(f.dl_name), "dl_name", "=", f.dl_name)
         \o Cond(TruthyStr(f.pdf_filename), "pdf_filename", "=", f.pdf_filename)
         \o Cond(TruthyNum(f.date_from), "meeting_date", ">=", f.date_from)

\* PGVectorStore.build_where_clause; filter is an optional SearchFilters
build_where_clause(filter) ==
    IF filter = None THEN <<>>
    ELSE LET f == filter[1] IN
         Cond(TruthyStr(f.source_type), "source_type", "=", f.source_type)
         \o Cond(TruthyStr(f.meeting_subject), "meeting_subject", "=", f.meeting_subject)
         \o Cond(TruthyStr(f.dl_name), "dl_name", "=", f.dl_name)
         \o Cond(TruthyStr(f.pdf_filename), "pdf_filename", "=", f.pdf_filename)
         \o Cond(TruthyNum(f.date_from), "meeting_date", ">=", f.date_from)
         \o Cond(TruthyNum(f.date_to), "meeting_date", "<=", f.date_to)

\* MongoVectorStore.build_search_filter
build_search_filter(filter) ==
    IF filter = None THEN <<>>
    ELSE LET f == filter[1] IN
         Cond(TruthyStr(f.source_type), "source_type", "=", f.source_type)
         \o Cond(TruthyStr(f.meeting_subject), "meeting_subject", "=", f.meeting_subject)
         \o Cond(TruthyStr(f.dl_name), "dl_name", "=", f.dl_name)
         \o Cond(TruthyStr(f.pdf_filename), "pdf_filename", "=", f.pdf_filename)
         \o Cond(TruthyNum(f.date_from), "meeting_date", ">=", f.date_from)
         \o Cond(TruthyNum(f.date_to), "meeting_date", "<=", f.date_to)

\* a delete filter that leaves source_type out
build_delete_filter_no_source(f) ==
    Cond(TruthyStr(f.meeting_subject), "meeting_subject", "=", f.meeting_subject)
    \o Cond(TruthyStr(f.dl_name), "dl_name", "=", f.dl_name)
    \o Cond(TruthyStr(f.pdf_filename), "pdf_filename", "=", f.pdf_filename)

\* MongoVectorStore.build_delete_filter: the four equality fields only
build_delete_filter(f) ==
    Cond(TruthyStr(f.source_type), "source_type", "=", f.source_type)
    \o Cond(TruthyStr(f.meeting_subject), "meeting_subject", "=", f.meeting_subject)
    \o Cond(TruthyStr(f.dl_name), "dl_name", "=", f.dl_name)
    \o Cond(TruthyStr(f.pdf_filename), "pdf_filename", "=", f.pdf_filename)

(***************************************************************************)
(* VectorStore.delete.  The result is [rows, count, threw].                *)
(***************************************************************************)
\* PGVectorStore.delete: an empty WHERE clause is refused
pg_delete(rows, f) ==
    LET conds == build_where_clause(Some(f)) IN
    IF Len(conds) = 0
    THEN [rows |-> rows, count |-> 0]
    ELSE LET hit == {r \in rows : Matches(conds, r.metadata)} IN
         [rows |-> rows \ hit, count |-> Cardinality(hit)]

\* MongoVectorStore.delete: deleteMany(build_delete_filter(filter))
mongo_delete(rows, f) ==
    LET conds == build_delete_filter(f)
        hit == {r \in rows : Matches(conds, r.metadata)} IN
    [rows |-> rows \ hit, count |-> Cardinality(hit)]

vs_delete(be, rows, f) == IF be = "postgres" THEN pg_delete(rows, f) ELSE mongo_delete(rows, f)

(***************************************************************************)
(* VectorStore.insert.  fail_at = 0: every row is stored; fail_at = k > 0: *)
(* storing the k-th document fails.  The relational backend rolls the      *)
(* transaction back; the document backend's insertMany keeps the documents *)
(* before the failing one.  The result is [rows, next_id, ids, threw].     *)
(***************************************************************************)
NewRows(docs, nid, n) ==
    {[id |-> nid + i - 1, content |-> docs[i].content, embedding |-> docs[i].embedding,
      metadata |-> docs[i].metadata] : i \in 1..n}

\* an insert loop without a transaction around it: the rows before the
\* failing one stay
pg_insert_no_rollback(rows, nid, docs, fail_at) ==
    IF Len(docs) = 0
    THEN [rows |-> rows, next_id |-> nid, ids |-> <<>>, threw |-> FALSE, held |-> 0]
    ELSE IF fail_at = 0
    THEN [rows |-> rows \cup NewRows(docs, nid, Len(docs)), next_id |-> nid + Len(docs),
          ids |-> [i \in 1..Len(docs) |-> nid + i - 1], threw |-> FALSE, held |-> 0]
    ELSE [rows |-> rows \cup NewRows(docs, nid, fail_at - 1), next_id |-> nid + fail_at - 1,
          ids |-> <<>>, threw |-> TRUE, held |-> 0]

\* PGVectorStore.insert: BEGIN, one INSERT per document, COMMIT; the catch
\* rolls back and rethrows, the finally releases the client (held: the
\* clients the call leaves checked out)
pg_insert(rows, nid, docs, fail_at) ==
    IF Len(docs) = 0
    THEN [rows |-> rows, next_id |-> nid, ids |-> <<>>, threw |-> FALSE, held |-> 0]
    ELSE IF fail_at = 0
    THEN [rows |-> rows \cup NewRows(docs, nid, Len(docs)), next_id |-> nid + Len(docs),
          ids |-> [i \in 1..Len(docs) |-> nid + i - 1], threw |-> FALSE, held |-> 0]
    ELSE [rows |-> rows, next_id |-> nid + fail_at - 1, ids |-> <<>>, threw |-> TRUE, held |-> 0]

\* MongoVectorStore.insert: insertMany, no pooled client
mongo_insert(rows, nid, docs, fail_at) ==
    IF Len(docs) = 0
    THEN [rows |-> rows, next_id |-> nid, ids |-> <<>>, threw |-> FALSE, held |-> 0]
    ELSE IF fail_at = 0
    THEN [rows |-> rows \cup NewRows(docs, nid, Len(docs)), next_id |-> nid + Len(docs),
          ids |-> [i \in 1..Len(docs) |-> nid + i - 1], threw |-> FALSE, held |-> 0]
    ELSE [rows |-> rows \cup NewRows(docs, nid, fail_at - 1), next_id |-> nid + fail_at - 1,
          ids |-> <<>>, threw |-> TRUE, held |-> 0]

vs_insert(be, rows, nid, docs, fail_at) ==
    IF be = "postgres" THEN pg_insert(rows, nid, docs, fail_at)
    ELSE mongo_insert(rows, nid, docs, fail_at)

(***************************************************************************)
(* VectorStore.search.                                                     *)
(***************************************************************************)
DEFAULT_LIMIT == 5
DEFAULT_MIN_SCORE == 700    \* 0.7

OrDefault(o, d) == IF TruthyNum(o) THEN o[1] ELSE d

\* cosine of the angle between two embeddings, in thousandths
Cosine(a, b) ==
    LET d == IF a >= b THEN a - b ELSE b - a IN
    CASE d = 0 -> 1000
      [] d = 1 -> 500
      [] d = 2 -> 0 - 500
      [] OTHER -> 0 - 1000

\* pg: 1 - (embedding <=> $1), the cosine distance being 1 - cosine
\* mongo: vectorSearchScore of a cosine index, (1 + cosine) / 2
Score(be, q, e) ==
    IF be = "postgres" THEN 1000 - (1000 - Cosine(q, e)) ELSE (1000 + Cosine(q, e)) \div 2

Injective(s) == \A i, j \in DOMAIN s : i # j => s[i] # s[j]

\* The orders in which the backend may return the n nearest rows of cands:
\* descending score, rows of equal score in any order.
NearestOrders(be, cands, q, n) ==
    {s \in [1..n -> cands] :
        /\ Injective(s)
        /\ \A i \in 1..(n - 1) : Score(be, q, s[i].embedding) >= Score(be, q, s[i + 1].embedding)
        /\ \A r \in cands : (\A i \in 1..n : s[i] # r) =>
               \A i \in 1..n : Score(be, q, s[i].embedding) >= Score(be, q, r.embedding)}

\* the rows as {document, score} results
Scored(be, q, s) ==
    [i \in 1..Len(s) |->
        [document |-> [content |-> s[i].content, metadata |-> s[i].metadata],
         score |-> Score(be, q, s[i].embedding)]]

\* a filter that also drops the rows scoring exactly minScore
AtLeast_strict(minScore, res) == SelectSeq(res, LAMBDA x : x.score > minScore)

\* rows.filter(row => row.score >= minScore) / $match score >= minScore
AtLeast(minScore, res) == SelectSeq(res, LAMBDA x : x.score >= minScore)

\* the condition sequence the backend's search applies
search_conds(be, filter) ==
    IF be = "postgres" THEN build_where_clause(filter) ELSE build_search_filter(filter)

\* every result list the call may return
vs_search(be, rows, q, options) ==
    LET limit == OrDefault(options.limit, DEFAULT_LIMIT)
        minScore == OrDefault(options.min_score, DEFAULT_MIN_SCORE)
        conds == search_conds(be, options.filter)
        cands == {r \in rows : Matches(conds, r.metadata)}
        n == Min2(limit, Cardinality(cands)) IN
    {AtLeast(minScore, Scored(be, q, s)) : s \in NearestOrders(be, cands, q, n)}

(***************************************************************************)
(* SpecStore: calls of one VectorStore.                                    *)
(***************************************************************************)
NoOptions == [limit |-> None, min_score |-> None, filter |-> None]

Ret(op, docs, q, options, f, results, count, ids, threw, before) ==
    [op |-> op, docs |-> docs, query |-> q, options |-> options, filter |-> f,
     results |-> results, count |-> count, ids |-> ids, threw |-> threw, before |-> before]

NoRet == Ret("none", <<>>, 0, NoOptions, EmptyFilter, <<>>, 0, <<>>, FALSE, {})

Batches == UNION {[1..n -> StoreDocs] : n \in 0..MaxDocs}

Limits == {None, Some(0), Some(1), Some(2)}
MinScores == {None, Some(0), Some(200), Some(1000)}

SearchFilterOpts ==
    {None, Some(EmptyFilter), Some(SourceFilter(DISTRIBUTION_LIST)),
     Some(DateFilter(Some(1), Some(2))), Some(DateFilter(None, Some(1))),
     Some(DateFilter(Some(2), None))}

InitStoreVars ==
    /\ backend \in Backends
    /\ kb = {}
    /\ next_id = 1
    /\ ret = NoRet
    /\ clients = 0

VSInsert ==
    /\ ret = NoRet
    /\ \E docs \in Batches : \E fail_at \in 0..Len(docs) :
        /\ next_id + Len(docs) - 1 <= MaxDocs
        /\ LET r == vs_insert(backend, kb, next_id, docs, fail_at) IN
            /\ kb' = r.rows
            /\ next_id' = r.next_id
            /\ clients' = clients + r.held
            /\ ret' = Ret("insert", docs, 0, NoOptions, EmptyFilter, <<>>, 0, r.ids, r.threw, kb)
        /\ UNCHANGED <<backend, ingestVars, chunkVars, restVars>>

VSSearch ==
    /\ ret = NoRet
    /\ \E q \in Dirs, limit \in Limits, min_score \in MinScores, filter \in SearchFilterOpts :
        LET options == [limit |-> limit, min_score |-> min_score, filter |-> filter] IN
        \E res \in vs_search(backend, kb, q, options) :
            /\ ret' = Ret("search", <<>>, q, options, EmptyFilter, res, 0, <<>>, FALSE, kb)
            /\ UNCHANGED <<backend, clients, kb, next_id, ingestVars, chunkVars, restVars>>

VSDelete ==
    /\ ret = NoRet
    /\ \E f \in StoreFilters :
        LET r == vs_delete(backend, kb, f) IN
        /\ kb' = r.rows
        /\ ret' = Ret("delete", <<>>, 0, NoOptions, f, <<>>, r.count, <<>>, FALSE, kb)
        /\ UNCHANGED <<backend, clients, next_id, ingestVars, chunkVars, restVars>>

\* the caller takes the result; it awaits each call before the next
VSReturn ==
    /\ ret # NoRet
    /\ ret' = NoRet
    /\ UNCHANGED <<backend, clients, kb, next_id, ingestVars, chunkVars, restVars>>

(***************************************************************************)
(* Metadata store (the sync_state entity) and the sync-state tracker.      *)
(* A call's result is a record with a field threw.                         *)
(***************************************************************************)
FALLBACK_HOURS == 24

Jobs == {TRANSCRIPT, DISTRIBUTION_LIST}

\* the keys of the data both orchestrators hand to sync_state.upsert
WatermarkKeys == <<"last_success", "updated_at">>

\* PGMetaStore.upsert: the columns DO UPDATE SET assigns, one clause per key
\* of data and then updated_at = NOW()
pg_upsert_set_columns(data_keys) == data_keys \o <<"updated_at">>

\* PostgreSQL refuses a SET list that assigns one column twice
pg_statement_valid(cols) == \A i, j \in 1..Len(cols) : i # j => cols[i] # cols[j]

Watermark(t) == Some([last_success |-> t, updated_at |-> t])

pg_upsert(table, job, t, db_fails) ==
    IF db_fails \/ ~pg_statement_valid(pg_upsert_set_columns(WatermarkKeys))
    THEN [table |-> table, threw |-> TRUE]
    ELSE [table |-> [table EXCEPT ![job] = Watermark(t)], threw |-> FALSE]

\* MongoMetaStore.upsert: updateOne(filter, {$set: {...data, updated_at}}, {upsert: true})
mongo_upsert(table, job, t, db_fails) ==
    IF db_fails
    THEN [table |-> table, threw |-> TRUE]
    ELSE [table |-> [table EXCEPT ![job] = Watermark(t)], threw |-> FALSE]

meta_upsert(be, table, job, t, db_fails) ==
    IF be = "postgres" THEN pg_upsert(table, job, t, db_fails) ELSE mongo_upsert(table, job, t, db_fails)

\* MetaStore.find_one({job_name})
meta_find_one(table, job, db_fails) ==
    IF db_fails THEN [value |-> None, threw |-> TRUE] ELSE [value |-> table[job], threw |-> FALSE]

\* get_last_sync without its try/catch: a failed read propagates
get_last_sync_uncaught(table, job, t, db_fails) ==
    LET r == meta_find_one(table, job, db_fails) IN
    IF r.threw THEN [value |-> 0, threw |-> TRUE]
    ELSE IF r.value # None THEN [value |-> r.value[1].last_success, threw |-> FALSE]
    ELSE [value |-> t - FALLBACK_HOURS, threw |-> FALSE]

\* sync_state.get_last_sync: a failed read is caught and falls back like a
\* missing record
get_last_sync(table, job, t, db_fails) ==
    LET r == meta_find_one(table, job, db_fails) IN
    IF ~r.threw /\ r.value # None
    THEN [value |-> r.value[1].last_success, threw |-> FALSE]
    ELSE [value |-> t - FALLBACK_HOURS, threw |-> FALSE]

(***************************************************************************)
(* Extractors, parsers and the Document Service.                           *)
(***************************************************************************)
MaxChunks == 2      \* documents one transcript parses into

\* A transcript upstream: "ok" parses into `chunks` documents; "badfetch"
\* makes fetch_content / fetch_meeting_details throw, "badparse" makes
\* parsers.transcripts.parse throw, "badembed" makes the embedding provider
\* throw on its documents, "badinsert" makes the store fail on its last row.
ItemShapes ==
    {[kind |-> "ok", chunks |-> MaxChunks], [kind |-> "ok", chunks |-> 0],
     [kind |-> "badfetch", chunks |-> 1], [kind |-> "badparse", chunks |-> 1],
     [kind |-> "badembed", chunks |-> 1], [kind |-> "badinsert", chunks |-> MaxChunks]}

Item(n, shape, t) == [id |-> n, kind |-> shape.kind, chunks |-> shape.chunks, time |-> t]

\* TranscriptExtractor.extract: the records since `since`; an item whose
\* content or meeting details cannot be fetched is logged and left out
transcripts_extract(items, since, list_fails) ==
    IF list_fails THEN [value |-> <<>>, threw |-> TRUE]
    ELSE [value |-> SelectSeq(items, LAMBDA it : it.time >= since /\ it.kind # "badfetch"),
          threw |-> FALSE]

\* DLExtractor.extract: every mail-enabled group (a failed member fetch
\* leaves the list with no members)
dls_extract(gs, list_fails) ==
    IF list_fails THEN [value |-> <<>>, threw |-> TRUE] ELSE [value |-> gs, threw |-> FALSE]

\* TranscriptParser.parse: one document per chunk of utterances
transcript_parse(item) ==
    IF item.kind = "badparse" THEN [docs |-> <<>>, threw |-> TRUE]
    ELSE [docs |-> [c \in 1..item.chunks |->
                      [content |-> "transcript " \o ToString(item.id) \o "/" \o ToString(c),
                       metadata |-> TranscriptMeta("meeting " \o ToString(item.id), item.time)]],
          threw |-> FALSE]

\* a parser that splits a list into two documents
dl_parse_split(dl) ==
    <<[content |-> "Distribution List: " \o dl.displayName, metadata |-> DLMeta(dl.displayName)],
      [content |-> "Members: " \o dl.displayName, metadata |-> DLMeta(dl.displayName)]>>

\* DLParser.parse: exactly one document per list
dl_parse(dl) ==
    <<[content |-> "Distribution List: " \o dl.displayName, metadata |-> DLMeta(dl.displayName)]>>

\* ai.embed.embed_batch: the provider's vector for each content
embed_batch(contents) == [i \in 1..Len(contents) |-> 0]

\* a variant that swallows the embedder's error and returns no ids
documents_add_swallowed(be, rows, nid, docs, embed_fails, fail_at) ==
    IF Len(docs) = 0 \/ embed_fails
    THEN [rows |-> rows, next_id |-> nid, ids |-> <<>>, threw |-> FALSE,
          calls |-> IF Len(docs) = 0 THEN {} ELSE {"embed_batch"}]
    ELSE LET r == vs_insert(be, rows, nid,
                            [i \in 1..Len(docs) |->
                               [content |-> docs[i].content, embedding |-> 0,
                                metadata |-> docs[i].metadata]], fail_at) IN
         [rows |-> r.rows, next_id |-> r.next_id, ids |-> r.ids, threw |-> r.threw,
          calls |-> {"embed_batch", "insert"}]

\* documents.add: embed, then insert; neither failure is caught here
documents_add(be, rows, nid, docs, embed_fails, fail_at) ==
    IF Len(docs) = 0
    THEN [rows |-> rows, next_id |-> nid, ids |-> <<>>, threw |-> FALSE, calls |-> {}]
    ELSE IF embed_fails
    THEN [rows |-> rows, next_id |-> nid, ids |-> <<>>, threw |-> TRUE, calls |-> {"embed_batch"}]
    ELSE LET embeddings == embed_batch([i \in 1..Len(docs) |-> docs[i].content])
             records == [i \in 1..Len(docs) |->
                           [content |-> docs[i].content, embedding |-> embeddings[i],
                            metadata |-> docs[i].metadata]]
             r == vs_insert(be, rows, nid, records, fail_at) IN
         [rows |-> r.rows, next_id |-> r.next_id, ids |-> r.ids, threw |-> r.threw,
          calls |-> {"embed_batch", "insert"}]

\* a refresh that deletes another source type
DLDeleteFilter_other == SourceFilter(TRANSCRIPT)

\* the filter dl.ingest.run hands to documents.delete
DLDeleteFilter == SourceFilter(DISTRIBUTION_LIST)

(***************************************************************************)
(* SpecIngest: the two callers of the ingestion jobs (the cron plugin and  *)
(* the manual trigger endpoint) each execute one run() of the job; the     *)
(* runs interleave at their awaits.  run[p] holds the locals of p's run    *)
(* and, for the properties, what the run has done so far:                  *)
(*   fails     where something threw: read, extract, parse, add, delete,   *)
(*             upsert (the database failed) or statement (the backend      *)
(*             refused the upsert statement)                               *)
(*   failed    ids of the items whose parse or add threw                   *)
(*   added     rows this run stored; del_calls, removed: its deletes       *)
(*   upsert_calls, upserted: its watermark writes and whether one held     *)
(*   sync0     the job's sync-state record when the run began              *)
(*   id0       the next id of the store when the run began                 *)
(*   overlap   another run was active at some time during this run         *)
(*   explicit  the caller gave options.since                               *)
(***************************************************************************)
Procs == {"cron", "trigger"}

IdleRun(job) ==
    [job |-> job, pc |-> "idle", since |-> 0, raw |-> <<>>, i |-> 1,
     processed |-> 0, errors |-> 0, details |-> <<>>, outcome |-> "pending", result |-> None,
     fails |-> {}, failed |-> {}, added |-> 0, del_calls |-> 0, removed |-> 0,
     upsert_calls |-> 0, upserted |-> FALSE, sync0 |-> None, id0 |-> 1, overlap |-> FALSE,
     explicit |-> FALSE]

Active(r) == r.pc \notin {"idle", "done"}

\* p's run becomes r; with begins, p is starting and every active run overlaps it
Update(p, r, begins) ==
    LET others == \E q \in Procs \ {p} : Active(run[q]) IN
    run' = [q \in Procs |->
              IF q = p THEN (IF begins THEN [r EXCEPT !.overlap = others] ELSE r)
              ELSE IF begins /\ Active(run[q]) THEN [run[q] EXCEPT !.overlap = TRUE]
              ELSE run[q]]

\* an outer catch that does not count the failure
Fatal_uncounted(r, site) ==
    [r EXCEPT !.details = Append(@, "fatal"), !.fails = @ \cup {site}, !.pc = "return"]

\* the outer catch of run(): count once, record, skip the watermark
Fatal(r, site) ==
    [r EXCEPT !.errors = @ + 1, !.details = Append(@, "fatal"), !.fails = @ \cup {site},
              !.pc = "return"]

\* the per-item catch: count, record, go on with the next item
ItemError(r, site) ==
    [r EXCEPT !.errors = @ + 1, !.details = Append(@, "error"), !.fails = @ \cup {site},
              !.failed = @ \cup {r.raw[r.i].id}, !.i = @ + 1]

SinceOpts == {None, Some(5)}

\* transcript.ingest.run, line 14: options?.since ?? await get_last_sync(...)
TRStart(p) ==
    /\ run[p].pc = "idle"
    /\ run[p].job = TRANSCRIPT
    /\ \A q \in Procs \ {p} : ~Active(run[q])
    /\ now' = now + 1
    /\ \E since_opt \in SinceOpts : \E read_fails \in (IF since_opt = None THEN BOOLEAN ELSE {FALSE}) :
        LET g == IF since_opt # None THEN [value |-> since_opt[1], threw |-> FALSE]
                 ELSE get_last_sync(sync, TRANSCRIPT, now', read_fails)
            r == [run[p] EXCEPT !.sync0 = sync[TRANSCRIPT], !.id0 = next_id,
                                !.explicit = since_opt # None,
                                !.fails = IF read_fails THEN {"read"} ELSE {}] IN
        IF g.threw
        THEN Update(p, [r EXCEPT !.outcome = "rejected", !.pc = "done"], TRUE)
        ELSE Update(p, [r EXCEPT !.since = g.value, !.pc = "extract"], TRUE)
    /\ UNCHANGED <<backend, clients, kb, next_id, ret, sync, upstream, groups, chunkVars, restVars>>

TRExtract(p) ==
    /\ run[p].pc = "extract"
    /\ run[p].job = TRANSCRIPT
    /\ \E list_fails \in BOOLEAN :
        LET x == transcripts_extract(upstream, run[p].since, list_fails) IN
        IF x.threw
        THEN Update(p, Fatal(run[p], "extract"), FALSE)
        ELSE Update(p, [run[p] EXCEPT !.raw = x.value, !.i = 1, !.pc = "loop"], FALSE)
    /\ UNCHANGED <<backend, clients, kb, next_id, ret, now, sync, upstream, groups, chunkVars, restVars>>

\* one iteration of the for loop: parse, and add when there are documents;
\* whether the embedding or the insert fails is a property of the item
TRItem(p) ==
    LET r == run[p] IN
    /\ r.pc = "loop"
    /\ r.job = TRANSCRIPT
    /\ r.i <= Len(r.raw)
    /\ LET parsed == transcript_parse(r.raw[r.i]) IN
       IF parsed.threw
       THEN /\ Update(p, ItemError(r, "parse"), FALSE)
            /\ UNCHANGED <<kb, next_id>>
       ELSE IF Len(parsed.docs) = 0
       THEN /\ Update(p, [r EXCEPT !.i = @ + 1], FALSE)
            /\ UNCHANGED <<kb, next_id>>
       ELSE LET item == r.raw[r.i]
                a == documents_add(backend, kb, next_id, parsed.docs, item.kind = "badembed",
                                   IF item.kind = "badinsert" THEN Len(parsed.docs) ELSE 0)
                stored == Cardinality(a.rows) - Cardinality(kb) IN
            /\ kb' = a.rows
            /\ next_id' = a.next_id
            /\ IF a.threw
               THEN Update(p, [ItemError(r, "add") EXCEPT !.added = @ + stored], FALSE)
               ELSE Update(p, [r EXCEPT !.processed = @ + Len(parsed.docs),
                                        !.details = Append(@, "processed"),
                                        !.added = @ + stored, !.i = @ + 1], FALSE)
    /\ UNCHANGED <<backend, clients, ret, now, sync, upstream, groups, chunkVars, restVars>>

\* a watermark write that does not wait for the loop to end
Upsert_early(p, job) ==
    LET r == run[p] IN
    /\ r.pc = "loop"
    /\ now' = now + 1
    /\ \E db_fails \in BOOLEAN :
        LET u == meta_upsert(backend, sync, job, now', db_fails) IN
        /\ sync' = u.table
        /\ IF u.threw
           THEN Update(p, [Fatal(r, IF db_fails THEN "upsert" ELSE "statement")
                              EXCEPT !.upsert_calls = @ + 1], FALSE)
           ELSE Update(p, [r EXCEPT !.upsert_calls = @ + 1, !.upserted = TRUE,
                                    !.pc = "return"], FALSE)
    /\ UNCHANGED <<backend, clients, kb, next_id, ret, upstream, groups, chunkVars, restVars>>

\* after the loop: sync_state.upsert({job_name}, {last_success: new Date(), ...})
Upsert(p, job) ==
    LET r == run[p] IN
    /\ r.pc = "loop"
    /\ r.i > Len(r.raw)
    /\ now' = now + 1
    /\ \E db_fails \in BOOLEAN :
        LET u == meta_upsert(backend, sync, job, now', db_fails) IN
        /\ sync' = u.table
        /\ IF u.threw
           THEN Update(p, [Fatal(r, IF db_fails THEN "upsert" ELSE "statement")
                              EXCEPT !.upsert_calls = @ + 1], FALSE)
           ELSE Update(p, [r EXCEPT !.upsert_calls = @ + 1, !.upserted = TRUE,
                                    !.pc = "return"], FALSE)
    /\ UNCHANGED <<backend, clients, kb, next_id, ret, upstream, groups, chunkVars, restVars>>

\* const result = { processed, errors, details }; return result
Return(p) ==
    LET r == run[p] IN
    /\ r.pc = "return"
    /\ Update(p, [r EXCEPT !.outcome = "resolved", !.pc = "done",
                           !.result = Some([processed |-> r.processed, errors |-> r.errors,
                                            details |-> r.details])], FALSE)
    /\ UNCHANGED <<backend, clients, kb, next_id, ret, now, sync, upstream, groups, chunkVars, restVars>>

\* transcript.ingest.run, after the loop and at the end
TRUpsert(p) ==
    /\ run[p].job = TRANSCRIPT
    /\ Upsert(p, TRANSCRIPT)

TRReturn(p) ==
    /\ run[p].job = TRANSCRIPT
    /\ Return(p)

\* dl.ingest.run
DLStart(p) ==
    /\ run[p].pc = "idle"
    /\ run[p].job = DISTRIBUTION_LIST
    /\ now' = now + 1
    /\ Update(p, [run[p] EXCEPT !.sync0 = sync[DISTRIBUTION_LIST], !.id0 = next_id,
                                !.pc = "extract"], TRUE)
    /\ UNCHANGED <<backend, clients, kb, next_id, ret, sync, upstream, groups, chunkVars, restVars>>

DLExtract(p) ==
    /\ run[p].pc = "extract"
    /\ run[p].job = DISTRIBUTION_LIST
    /\ \E list_fails \in BOOLEAN :
        LET x == dls_extract(groups, list_fails) IN
        IF x.threw
        THEN Update(p, Fatal(run[p], "extract"), FALSE)
        ELSE Update(p, [run[p] EXCEPT !.raw = x.value, !.i = 1, !.pc = "delete"], FALSE)
    /\ UNCHANGED <<backend, clients, kb, next_id, ret, now, sync, upstream, groups, chunkVars, restVars>>

\* documents.delete({source_type: distribution_list}), before the loop
DLDelete(p) ==
    LET r == run[p] IN
    /\ r.pc = "delete"
    /\ r.job = DISTRIBUTION_LIST
    /\ \E db_fails \in BOOLEAN :
        IF db_fails
        THEN /\ Update(p, [Fatal(r, "delete") EXCEPT !.del_calls = @ + 1], FALSE)
             /\ UNCHANGED kb
        ELSE LET d == vs_delete(backend, kb, DLDeleteFilter) IN
             /\ kb' = d.rows
             /\ Update(p, [r EXCEPT !.details = Append(@, "deleted"), !.del_calls = @ + 1,
                                    !.removed = @ + d.count, !.pc = "loop"], FALSE)
    /\ UNCHANGED <<backend, clients, next_id, ret, now, sync, upstream, groups, chunkVars, restVars>>

\* one iteration of the for loop: parse and add; the embedding or the insert
\* may fail on any call
DLItem(p) ==
    LET r == run[p] IN
    /\ r.pc = "loop"
    /\ r.job = DISTRIBUTION_LIST
    /\ r.i <= Len(r.raw)
    /\ LET docs == dl_parse(r.raw[r.i]) IN
       \E embed_fails \in BOOLEAN :
       \E fail_at \in (IF embed_fails THEN {0} ELSE 0..Len(docs)) :
          LET a == documents_add(backend, kb, next_id, docs, embed_fails, fail_at)
              stored == Cardinality(a.rows) - Cardinality(kb) IN
          /\ kb' = a.rows
          /\ next_id' = a.next_id
          /\ IF a.threw
             THEN Update(p, [ItemError(r, "add") EXCEPT !.added = @ + stored], FALSE)
             ELSE Update(p, [r EXCEPT !.processed = @ + Len(docs),
                                      !.details = Append(@, "processed"),
                                      !.added = @ + stored, !.i = @ + 1], FALSE)
    /\ UNCHANGED <<backend, clients, ret, now, sync, upstream, groups, chunkVars, restVars>>

\* dl.ingest.run, after the loop and at the end
DLUpsert(p) ==
    /\ run[p].job = DISTRIBUTION_LIST
    /\ Upsert(p, DISTRIBUTION_LIST)

DLReturn(p) ==
    /\ run[p].job = DISTRIBUTION_LIST
    /\ Return(p)

\* what Microsoft Graph may hold
TranscriptLists == UNION {[1..n -> ItemShapes] : n \in 0..MaxItems}
GroupNames == <<"dl1", "dl2", "dl3", "dl4">>
GroupList(n) == [i \in 1..n |-> [id |-> i, displayName |-> GroupNames[i]]]

InitIngestVars ==
    /\ now = FALLBACK_HOURS
    /\ sync = [j \in Jobs |-> None]
    /\ \E job \in Jobs :
        /\ run = [p \in Procs |-> IdleRun(job)]
        /\ IF job = TRANSCRIPT
           THEN /\ \E shapes \in TranscriptLists :
                     upstream = [i \in 1..Len(shapes) |-> Item(i, shapes[i], FALLBACK_HOURS - 1)]
                /\ groups = <<>>
           ELSE /\ upstream = <<>>
                /\ \E n \in 0..MaxLists : groups = GroupList(n)

\* the ingestion jobs are not running
IngestIdle ==
    /\ now = FALLBACK_HOURS
    /\ sync = [j \in Jobs |-> None]
    /\ upstream = <<>>
    /\ groups = <<>>
    /\ run = [p \in Procs |-> IdleRun("none")]

\* documents of earlier ingestions: a transcript chunk, a PDF chunk and a
\* distribution list of the last refresh
SeedRows ==
    {[id |-> 1, content |-> "transcript 9/1", embedding |-> 0,
      metadata |-> TranscriptMeta("meeting 9", 1)],
     [id |-> 2, content |-> "pdf 9/0", embedding |-> 0, metadata |-> PdfMeta("file9")],
     [id |-> 3, content |-> "Distribution List: old", embedding |-> 0,
      metadata |-> DLMeta("old")]}

\* distribution-list runs over a store that holds documents of every source
InitRefreshVars ==
    /\ backend \in Backends
    /\ kb \in SUBSET SeedRows
    /\ next_id = Cardinality(SeedRows) + 1
    /\ ret = NoRet
    /\ clients = 0
    /\ now = FALLBACK_HOURS
    /\ sync = [j \in Jobs |-> None]
    /\ upstream = <<>>
    /\ \E n \in 0..MaxLists : groups = GroupList(n)
    /\ run = [p \in Procs |-> IdleRun(DISTRIBUTION_LIST)]

\* Microsoft Graph gains a call record with a transcript; its startDateTime
\* is the current time at the latest
Arrive ==
    /\ Len(upstream) < MaxItems
    /\ \E shape \in {sh \in ItemShapes : sh.kind = "ok" /\ sh.chunks > 0} :
        upstream' = Append(upstream, Item(Len(upstream) + 1, shape, now))
    /\ UNCHANGED <<storeVars, now, sync, groups, run, chunkVars, restVars>>

\* scheduled transcript runs over a growing upstream
InitSyncVars ==
    /\ now = FALLBACK_HOURS
    /\ sync = [j \in Jobs |-> None]
    /\ upstream = <<>>
    /\ groups = <<>>
    /\ run = [p \in Procs |-> IdleRun(TRANSCRIPT)]

(***************************************************************************)
(* chunk_text.  A text is a sequence of one-character strings; the JS      *)
(* offsets are 0-based: text.substring(s, e) is SubSeq(text, s + 1, e).    *)
(***************************************************************************)
DEFAULT_CHUNK_SIZE == 2000
DEFAULT_OVERLAP == 200
SENTENCE_WINDOW == 100

MaxLen == 4         \* length of the short texts
MaxSize == 3        \* chunk_size / chunk_overlap given with the short texts
LongLen == 260      \* length of the long texts

Terminators == {".", "!", "?"}
Whitespace == {" "}

\* text.substring(s, e) without the trim
substring_untrimmed(t, s, e) == SubSeq(t, s + 1, e)

\* text.substring(s, e).trim(): the substring without the whitespace at its
\* two ends
trimmed_substring(t, s, e) ==
    IF \A k \in (s + 1)..e : t[k] \in Whitespace THEN <<>>
    ELSE SubSeq(t,
            CHOOSE k \in (s + 1)..e :
                t[k] \notin Whitespace /\ \A m \in (s + 1)..(k - 1) : t[m] \in Whitespace,
            CHOOSE k \in (s + 1)..e :
                t[k] \notin Whitespace /\ \A m \in (k + 1)..e : t[m] \in Whitespace)

\* /[.!?]\s/ matches the two characters of t at offset k (0-based)
sentence_end_at(t, k) == t[k + 1] \in Terminators /\ t[k + 2] \in Whitespace

\* text.substring(s, e).search(/[.!?]\s/): offset within the substring of the
\* first match, or -1
search_sentence_end(t, s, e) ==
    IF \A k \in s..(e - 2) : ~sentence_end_at(t, k) THEN 0 - 1
    ELSE (CHOOSE k \in s..(e - 2) :
            sentence_end_at(t, k) /\ \A m \in s..(k - 1) : ~sentence_end_at(t, m)) - s

\* options?.chunk_size || DEFAULT_CHUNK_SIZE
chunkSize(options) == OrDefault(options.chunk_size, DEFAULT_CHUNK_SIZE)

\* an overlap that ignores options.chunk_overlap
overlap_fixed(options) == DEFAULT_OVERLAP

\* options?.chunk_overlap || DEFAULT_OVERLAP
overlap(options) == OrDefault(options.chunk_overlap, DEFAULT_OVERLAP)

\* lines 34-45: the end of the window that begins at s
window_end(t, s, size) ==
    LET end0 == Min2(s + size, Len(t)) IN
    IF end0 < Len(t)
    THEN LET searchStart == Max2(end0 - SENTENCE_WINDOW, s)
             searchEnd == Min2(end0 + SENTENCE_WINDOW, Len(t))
             sentenceEnd == search_sentence_end(t, searchStart, searchEnd) IN
         IF sentenceEnd # 0 - 1 THEN searchStart + sentenceEnd + 2 ELSE end0
    ELSE end0

\* the advance without the progress test
advance_unguarded(s, e, ov) == e - ov

\* lines 59-60: nextStart > start ? nextStart : end
advance(s, e, ov) ==
    LET nextStart == e - ov IN
    IF nextStart > s THEN nextStart ELSE e

\* one iteration of the while loop
ChunkIterate ==
    /\ cpc = "loop"
    /\ start < Len(text)
    /\ \E end \in {window_end(text, start, chunkSize(copts))} :
       \E chunkText \in {trimmed_substring(text, start, end)} :
        /\ IF Len(chunkText) > 0
           THEN /\ chunks' = Append(chunks, [text |-> chunkText, index |-> index,
                                             start_char |-> start, end_char |-> end])
                /\ index' = index + 1
           ELSE UNCHANGED <<chunks, index>>
        /\ start' = advance(start, end, overlap(copts))
    /\ UNCHANGED <<text, copts, cpc, storeVars, ingestVars, restVars>>

\* the while test fails: return chunks
ChunkReturn ==
    /\ cpc = "loop"
    /\ ~(start < Len(text))
    /\ cpc' = "done"
    /\ UNCHANGED <<text, copts, start, index, chunks, storeVars, ingestVars, restVars>>

Alphabet == {"a", ".", " "}
ShortTexts == UNION {[1..n -> Alphabet] : n \in 0..MaxLen}
ShortOpts == {None} \cup {Some(n) : n \in 0..MaxSize}

\* long texts: letters with a sentence end (". ") or a run of blanks here and there
LongText(dots, blanks) ==
    [k \in 1..LongLen |->
        IF k \in dots THEN "." ELSE IF (k - 1) \in dots \/ k \in blanks THEN " " ELSE "a"]

LongTexts ==
    {LongText(d, b) : d \in {{}, {5}, {130}, {255}, {60, 200}}, b \in {{}, 100..259}}
LongSizes == {Some(120), Some(250)}
LongOverlaps == {None, Some(0), Some(50), Some(150)}

ChunkCalls ==
    (ShortTexts \X ShortOpts \X ShortOpts) \cup (LongTexts \X LongSizes \X LongOverlaps)

\* chunk_text(text, options) is called: lines 27-31
ChunkCall ==
    /\ cpc = "idle"
    /\ \E c \in ChunkCalls :
        /\ text' = c[1]
        /\ copts' = [chunk_size |-> c[2], chunk_overlap |-> c[3]]
    /\ start' = 0
    /\ index' = 0
    /\ chunks' = <<>>
    /\ cpc' = "loop"
    /\ UNCHANGED <<storeVars, ingestVars, restVars>>

\* chunk_text is not running
ChunkIdle ==
    /\ text = <<>>
    /\ copts = [chunk_size |-> None, chunk_overlap |-> None]
    /\ start = 0
    /\ index = 0
    /\ chunks = <<>>
    /\ cpc = "idle"

\* the store is empty and no call is in flight
StoreIdle ==
    /\ backend = "postgres"
    /\ kb = {}
    /\ next_id = 1
    /\ ret = NoRet
    /\ clients = 0

(***************************************************************************)
(* The Store facade: PGStore and MongoStore.  The Store caches the handle  *)
(* of the backend (PGStore.pool, MongoStore.db); connect() and close()     *)
(* are async and other callers run while they wait.                        *)
(***************************************************************************)
Dimensions == {2, 3}

\* the objects PGStore.setup creates, in the order of its statements
PGObjects ==
    <<"vector", "knowledge_base", "idx_kb_source_type", "idx_kb_meeting_date",
      "idx_kb_embedding_hnsw", "files", "sync_state">>

\* the object MongoStore.setup creates
MongoObjects == <<"knowledge_base_vector_index">>

SchemaObjects(be) == IF be = "postgres" THEN PGObjects ELSE MongoObjects

ObjectNames ==
    {PGObjects[i] : i \in 1..Len(PGObjects)} \cup {MongoObjects[i] : i \in 1..Len(MongoObjects)}

\* the objects whose definition holds the dimensions: VECTOR(n), numDimensions
Sized == {"knowledge_base", "knowledge_base_vector_index"}

NoSchema == [o \in ObjectNames |-> None]

Definition(name, dimensions) == Some(IF name \in Sized THEN dimensions ELSE 0)

\* a statement that replaces the object it finds
create_or_replace(sch, name, dimensions) ==
    [sch EXCEPT ![name] = Definition(name, dimensions)]

\* CREATE ... IF NOT EXISTS; createSearchIndex unless listSearchIndexes holds the name
create_if_not_exists(sch, name, dimensions) ==
    IF sch[name] # None THEN sch ELSE [sch EXCEPT ![name] = Definition(name, dimensions)]

\* the first n statements of setup, in order
RECURSIVE run_statements(_, _, _, _)
run_statements(sch, objs, n, dimensions) ==
    IF n = 0 THEN sch
    ELSE create_if_not_exists(run_statements(sch, objs, n - 1, dimensions), objs[n], dimensions)

\* Store.setup(dimensions); statement fail_at fails, none when fail_at = 0
store_setup(be, handle, sch, dimensions, fail_at) ==
    LET objs == SchemaObjects(be) IN
    IF ~handle THEN [schema |-> sch, result |-> "StoreNotConnectedError"]
    ELSE IF fail_at = 0
    THEN [schema |-> run_statements(sch, objs, Len(objs), dimensions), result |-> "resolved"]
    ELSE [schema |-> run_statements(sch, objs, fail_at - 1, dimensions), result |-> "rejected"]

\* require_pool / require_db and the accessor built over the handle
require_handle(handle) == IF handle THEN "accessor" ELSE "StoreNotConnectedError"

LRet(op, result, was_connected, value) ==
    [op |-> op, result |-> result, connected |-> was_connected, value |-> value]

NoLRet == LRet("none", "none", FALSE, None)

\* connect() is called and awaits connect_pg() / get_db()
Connect ==
    /\ lpc = "idle"
    /\ lpc' = "connect"
    /\ UNCHANGED <<pool, connected, schema, meta_rows, lret, storeVars, ingestVars, chunkVars, fileVars, docVars, parseVars>>

\* connect_pg() / get_db() settles; PGStore keeps the pool and goes on to
\* check the vector type, MongoStore keeps the db and returns
ConnectOpen ==
    /\ lpc = "connect"
    /\ \E reachable \in BOOLEAN :
        IF ~reachable
        THEN /\ lpc' = "idle"
             /\ lret' = LRet("connect", "rejected", connected, None)
             /\ UNCHANGED <<pool, connected>>
        ELSE IF backend = "postgres"
        THEN /\ pool' = TRUE
             /\ lpc' = "verify"
             /\ UNCHANGED <<connected, lret>>
        ELSE /\ pool' = TRUE
             /\ lpc' = "idle"
             /\ connected' = TRUE
             /\ lret' = LRet("connect", "resolved", TRUE, None)
    /\ UNCHANGED <<schema, meta_rows, storeVars, ingestVars, chunkVars, fileVars, docVars, parseVars>>

\* PGStore.connect: SELECT 'vector'::regtype settles
ConnectVerify ==
    /\ lpc = "verify"
    /\ \E has_vector \in BOOLEAN :
        IF has_vector
        THEN /\ connected' = TRUE
             /\ lret' = LRet("connect", "resolved", TRUE, None)
        ELSE /\ lret' = LRet("connect", "rejected", connected, None)
             /\ UNCHANGED connected
    /\ lpc' = "idle"
    /\ UNCHANGED <<pool, schema, meta_rows, storeVars, ingestVars, chunkVars, fileVars, docVars, parseVars>>

\* close() is called and awaits close_pg() / close_mongo()
Close ==
    /\ lpc = "idle"
    /\ lpc' = "close"
    /\ connected' = FALSE
    /\ UNCHANGED <<pool, schema, meta_rows, lret, storeVars, ingestVars, chunkVars, fileVars, docVars, parseVars>>

\* close_pg() / close_mongo() settles; the handle is dropped after it resolved
CloseDone ==
    /\ lpc = "close"
    /\ \E closed \in BOOLEAN :
        IF closed
        THEN /\ pool' = FALSE
             /\ lret' = LRet("close", "resolved", FALSE, None)
        ELSE /\ lret' = LRet("close", "rejected", FALSE, None)
             /\ UNCHANGED pool
    /\ lpc' = "idle"
    /\ UNCHANGED <<connected, schema, meta_rows, storeVars, ingestVars, chunkVars, fileVars, docVars, parseVars>>

\* get_vector_store(name), from any caller, also while connect / close wait
GetVectorStore ==
    /\ lret' = LRet("get_vector_store", require_handle(pool), connected, None)
    /\ UNCHANGED <<pool, lpc, connected, schema, meta_rows, storeVars, ingestVars, chunkVars, fileVars, docVars, parseVars>>

\* get_meta_store(name)
GetMetaStore ==
    /\ lret' = LRet("get_meta_store", require_handle(pool), connected, None)
    /\ UNCHANGED <<pool, lpc, connected, schema, meta_rows, storeVars, ingestVars, chunkVars, fileVars, docVars, parseVars>>

\* setup(dimensions)
Setup ==
    /\ lpc = "idle"
    /\ \E dimensions \in Dimensions, fail_at \in 0..Len(SchemaObjects(backend)) :
        LET r == store_setup(backend, pool, schema, dimensions, fail_at) IN
        /\ schema' = r.schema
        /\ lret' = LRet("setup", r.result, connected, Some(dimensions))
    /\ UNCHANGED <<pool, lpc, connected, meta_rows, storeVars, ingestVars, chunkVars, fileVars, docVars, parseVars>>

\* the data handed to MetaStore.upsert: last_success, and updated_at or not
MetaData(last_success, updated_at) ==
    [last_success |-> last_success, updated_at |-> updated_at]

\* Object.keys(data)
data_keys(data) ==
    (IF data.last_success # None THEN <<"last_success">> ELSE <<>>)
        \o (IF data.updated_at # None THEN <<"updated_at">> ELSE <<>>)

Matching(rows, job) == {r \in rows : r.job_name = job}

\* PGMetaStore.upsert({job_name}, data): INSERT ... ON CONFLICT (job_name) DO
\* UPDATE SET <one clause per key of data>, updated_at = NOW(); the column
\* values come from data, updated_at from NOW() (its DEFAULT on insert)
PGMetaStore_upsert(rows, job, data, clock, db_fails) ==
    IF db_fails \/ ~pg_statement_valid(pg_upsert_set_columns(data_keys(data)))
    THEN [tables |-> {rows}, threw |-> TRUE]
    ELSE [tables |-> {(rows \ Matching(rows, job)) \cup
                        {[job_name |-> job, last_success |-> data.last_success[1],
                          updated_at |-> clock]}},
          threw |-> FALSE]

\* MongoMetaStore.upsert(filter, data): updateOne(filter, {$set: {...data,
\* updated_at: new Date()}}, {upsert: true}) changes one matching document,
\* or inserts the filter's fields with the $set ones
MongoMetaStore_upsert(rows, job, data, clock, db_fails) ==
    IF db_fails THEN [tables |-> {rows}, threw |-> TRUE]
    ELSE IF Matching(rows, job) = {}
    THEN [tables |-> {rows \cup {[job_name |-> job, last_success |-> data.last_success[1],
                                  updated_at |-> clock]}},
          threw |-> FALSE]
    ELSE [tables |-> {(rows \ {r}) \cup {[r EXCEPT !.last_success = data.last_success[1],
                                                   !.updated_at = clock]} :
                         r \in Matching(rows, job)},
          threw |-> FALSE]

MetaStore_upsert(be, rows, job, data, clock, db_fails) ==
    IF be = "postgres" THEN PGMetaStore_upsert(rows, job, data, clock, db_fails)
    ELSE MongoMetaStore_upsert(rows, job, data, clock, db_fails)

\* MetaStore.find_one({job_name}): a matching row (LIMIT 1 / findOne) or null
MetaStore_find_one(rows, job) ==
    IF Matching(rows, job) = {} THEN {None} ELSE {Some(r) : r \in Matching(rows, job)}

\* the sync_state entity as get_last_sync reads it
TableOf(rows) ==
    [j \in Jobs |-> IF Matching(rows, j) = {} THEN None
                    ELSE Some(CHOOSE r \in Matching(rows, j) : TRUE)]

\* sync_state.upsert({job_name}, data): meta() takes the accessor first
MetaUpsert(job) ==
    /\ lpc = "idle"
    /\ \E last_success \in {1, now}, updated_at \in {None, Some(1), Some(now)},
          db_fails \in BOOLEAN :
        LET data == MetaData(Some(last_success), updated_at)
            call == Some([job |-> job, data |-> data, db_fails |-> db_fails]) IN
        IF require_handle(pool) # "accessor"
        THEN /\ lret' = LRet("upsert", require_handle(pool), connected, call)
             /\ UNCHANGED meta_rows
        ELSE LET r == MetaStore_upsert(backend, meta_rows, job, data, now, db_fails) IN
             /\ meta_rows' \in r.tables
             /\ lret' = LRet("upsert", IF r.threw THEN "rejected" ELSE "resolved", connected, call)
    /\ UNCHANGED <<pool, lpc, connected, schema, storeVars, ingestVars, chunkVars, fileVars, docVars, parseVars>>

\* sync_state.find_one({job_name})
MetaFindOne(job) ==
    /\ lpc = "idle"
    /\ IF require_handle(pool) # "accessor"
       THEN lret' = LRet("find_one", require_handle(pool), connected, None)
       ELSE \E found \in MetaStore_find_one(meta_rows, job) :
                lret' = LRet("find_one", "resolved", connected, Some([job |-> job, found |-> found]))
    /\ UNCHANGED <<pool, lpc, connected, schema, meta_rows, storeVars, ingestVars, chunkVars, fileVars, docVars, parseVars>>

\* sync_state.get_last_sync(job): the read fails when the store hands out no
\* accessor, or when the database refuses it
GetLastSync(job) ==
    /\ lpc = "idle"
    /\ \E db_fails \in BOOLEAN :
        LET read_fails == require_handle(pool) # "accessor" \/ db_fails
            r == get_last_sync(TableOf(meta_rows), job, now, read_fails) IN
        lret' = LRet("get_last_sync", IF r.threw THEN "rejected" ELSE "resolved", connected,
                     Some([job |-> job, since |-> r.value, read_fails |-> read_fails]))
    /\ UNCHANGED <<pool, lpc, connected, schema, meta_rows, storeVars, ingestVars, chunkVars, fileVars, docVars, parseVars>>

InitLifeVars ==
    /\ pool = FALSE
    /\ lpc = "idle"
    /\ connected = FALSE
    /\ schema = NoSchema
    /\ meta_rows = {}
    /\ lret = NoLRet

\* the store is connected and set up, no call on it is in flight
LifeReady ==
    /\ pool = TRUE
    /\ lpc = "idle"
    /\ connected = TRUE
    /\ schema = store_setup(backend, TRUE, NoSchema, 2, 0).schema
    /\ meta_rows = {}
    /\ lret = NoLRet

(***************************************************************************)
(* The PDF pipeline (pdf.ingest run) over the file records, and the        *)
(* Document Service under it.  Every API request creates its own record    *)
(* and starts one run for it, not awaited: runs of several files overlap.  *)
(***************************************************************************)
MaxFiles == 2       \* file records created
PdfLongLen == 1100  \* characters of the long PDF text

PDF_CHUNK_SIZE == 1000
PDF_CHUNK_OVERLAP == 200

PENDING == "pending"
PROCESSING == "processing"
COMPLETED == "completed"
FAILED == "failed"

\* what pdfParse finds in the buffer: not a PDF, no text, whitespace only,
\* one sentence, or more text than one chunk takes
PdfKinds == {"invalid", "none", "blank", "short", "long"}

PdfText(pdf) ==
    CASE pdf = "none" -> <<>>
      [] pdf = "blank" -> <<" ", " ">>
      [] pdf = "short" -> <<"a", ".">>
      [] OTHER -> [i \in 1..PdfLongLen |->
                     IF i = PDF_CHUNK_SIZE - 50 THEN "."
                     ELSE IF i = PDF_CHUNK_SIZE - 49 THEN " " ELSE "a"]

\* chunk_text as a function: the chunks from offset s on, the next index i
RECURSIVE chunk_text_from(_, _, _, _)
chunk_text_from(t, options, s, i) ==
    IF s >= Len(t) THEN <<>>
    ELSE LET From(end) ==
                LET chunkText == trimmed_substring(t, s, end)
                    rest_start == advance(s, end, overlap(options)) IN
                IF Len(chunkText) > 0
                THEN <<[index |-> i, start_char |-> s, end_char |-> end]>>
                         \o chunk_text_from(t, options, rest_start, i + 1)
                ELSE chunk_text_from(t, options, rest_start, i) IN
         \* the window's end is computed once
         CHOOSE cs \in {From(end) : end \in {window_end(t, s, chunkSize(options))}} : TRUE

chunk_text(t, options) == chunk_text_from(t, options, 0, 0)

PdfDocs(fileId, cs) ==
    [i \in 1..Len(cs) |->
        [content |-> "pdf " \o ToString(fileId) \o "/" \o ToString(cs[i].index),
         metadata |-> PdfMeta("file" \o ToString(fileId))]]

\* a parser that rejects a PDF without text
parse_pdf_strict(pdf, fileId) ==
    IF pdf = "invalid" THEN [docs |-> <<>>, threw |-> TRUE]
    ELSE LET fullText == PdfText(pdf) IN
         IF Len(fullText) = 0 \/ Len(trimmed_substring(fullText, 0, Len(fullText))) = 0
         THEN [docs |-> <<>>, threw |-> TRUE]
         ELSE [docs |-> PdfDocs(fileId, chunk_text(fullText,
                           [chunk_size |-> Some(PDF_CHUNK_SIZE),
                            chunk_overlap |-> Some(PDF_CHUNK_OVERLAP)])),
               threw |-> FALSE]

\* parse_pdf: pdfParse throws on a buffer it cannot read; no text or only
\* whitespace gives []; else one document per chunk
parse_pdf(pdf, fileId) ==
    IF pdf = "invalid" THEN [docs |-> <<>>, threw |-> TRUE]
    ELSE LET Parsed(fullText, n) ==
                IF n = 0 \/ Len(trimmed_substring(fullText, 0, n)) = 0
                THEN [docs |-> <<>>, threw |-> FALSE]
                ELSE [docs |-> PdfDocs(fileId, chunk_text(fullText,
                                  [chunk_size |-> Some(PDF_CHUNK_SIZE),
                                   chunk_overlap |-> Some(PDF_CHUNK_OVERLAP)])),
                      threw |-> FALSE] IN
         \* const fullText = pdfData.text, read once
         CHOOSE r \in {Parsed(fullText, Len(fullText)) : fullText \in {PdfText(pdf)}} : TRUE

NoExtra == [chunks_count |-> None, error |-> None]

\* a count that is always 0
chunks_extra_zero(docs) == [chunks_count |-> Some(0), error |-> None]

\* { chunks_count: _docs.length }
chunks_extra(docs) == [chunks_count |-> Some(Len(docs)), error |-> None]

\* { error: errorMsg }
error_extra(msg) == [chunks_count |-> None, error |-> Some(msg)]

\* files.create: a record with status pending
NewFile == [status |-> PENDING, chunks_count |-> None, error |-> None]

\* files.update_status(id, status, extra): update(id, { status, ...extra })
update_status(table, id, status, extra) ==
    [table EXCEPT ![id] =
        [status |-> status,
         chunks_count |-> IF extra.chunks_count # None THEN extra.chunks_count ELSE @.chunks_count,
         error |-> IF extra.error # None THEN extra.error ELSE @.error]]

\* where the request takes the PDF from
Sources == {"upload", "url"}

\* the locals of one run(pdfBuffer, fileId, filename) and, before it, of the
\* request that starts it; the buffer of a URL is known once downloaded
NewRun(pdf, source) ==
    [pc |-> IF source = "url" THEN "download" ELSE "created", pdf |-> pdf, source |-> source,
     docs |-> <<>>, error |-> "", added |-> 0, calls |-> {}, update_failed |-> FALSE]

\* the catch block is entered with this error
Caught(r, msg) == [r EXCEPT !.pc = "catch", !.error = msg]

\* POST /api/pdf/upload: create_file_record, then run(buffer) is started and
\* not awaited; POST /api/pdf/url: create_file_record, then download_pdf(url)
\* is started and not awaited
FileCreate ==
    /\ Len(files) < MaxFiles
    /\ \E source \in Sources :
       \E pdf \in (IF source = "upload" THEN PdfKinds ELSE {"unfetched"}) :
        /\ files' = Append(files, NewFile)
        /\ pruns' = Append(pruns, NewRun(pdf, source))
    /\ UNCHANGED <<storeVars, ingestVars, chunkVars, lifeVars, docVars, parseVars>>

\* a download chain that marks the record failed when download_pdf rejects
FileDownload_marked(f) ==
    /\ f <= Len(files)
    /\ pruns[f].pc = "download"
    /\ \E ok \in BOOLEAN :
        IF ok
        THEN /\ \E pdf \in PdfKinds : pruns' = [pruns EXCEPT ![f].pc = "created", ![f].pdf = pdf]
             /\ UNCHANGED files
        ELSE /\ pruns' = [pruns EXCEPT ![f].pc = "done", ![f].error = "download"]
             /\ files' = update_status(files, f, FAILED, error_extra("download"))
    /\ UNCHANGED <<storeVars, ingestVars, chunkVars, lifeVars, docVars, parseVars>>

\* download_pdf(url).then(buffer => run(buffer, ...)).catch(err => logger.error):
\* when the fetch fails or answers not ok, the rejection is logged and run()
\* is never called
FileDownload(f) ==
    /\ f <= Len(files)
    /\ pruns[f].pc = "download"
    /\ \E ok \in BOOLEAN :
        IF ok
        THEN /\ \E pdf \in PdfKinds : pruns' = [pruns EXCEPT ![f].pc = "created", ![f].pdf = pdf]
             /\ UNCHANGED files
        ELSE /\ pruns' = [pruns EXCEPT ![f].pc = "logged", ![f].error = "download"]
             /\ UNCHANGED files
    /\ UNCHANGED <<storeVars, ingestVars, chunkVars, lifeVars, docVars, parseVars>>

\* run: update_status(fileId, PROCESSING)
FileStart(f) ==
    /\ f <= Len(files)
    /\ pruns[f].pc = "created"
    /\ \E db_fails \in BOOLEAN :
        IF db_fails
        THEN /\ pruns' = [pruns EXCEPT ![f] = [Caught(@, "update") EXCEPT !.update_failed = TRUE]]
             /\ UNCHANGED files
        ELSE /\ files' = update_status(files, f, PROCESSING, NoExtra)
             /\ pruns' = [pruns EXCEPT ![f].pc = "parse"]
    /\ UNCHANGED <<storeVars, ingestVars, chunkVars, lifeVars, docVars, parseVars>>

\* run: parse_pdf and the test _docs.length === 0
FileParse(f) ==
    /\ f <= Len(files)
    /\ pruns[f].pc = "parse"
    /\ \E r \in {parse_pdf(pruns[f].pdf, f)} :
        pruns' = [pruns EXCEPT ![f] =
                    IF r.threw THEN Caught(@, "parse")
                    ELSE [@ EXCEPT !.docs = r.docs,
                                   !.pc = IF Len(r.docs) = 0 THEN "empty" ELSE "add"]]
    /\ UNCHANGED <<files, storeVars, ingestVars, chunkVars, lifeVars, docVars, parseVars>>

\* run: update_status(fileId, COMPLETED, { chunks_count: 0 }) and return
FileEmpty(f) ==
    /\ f <= Len(files)
    /\ pruns[f].pc = "empty"
    /\ \E db_fails \in BOOLEAN :
        IF db_fails
        THEN /\ pruns' = [pruns EXCEPT ![f] = [Caught(@, "update") EXCEPT !.update_failed = TRUE]]
             /\ UNCHANGED files
        ELSE /\ files' = update_status(files, f, COMPLETED, [chunks_count |-> Some(0), error |-> None])
             /\ pruns' = [pruns EXCEPT ![f].pc = "done"]
    /\ UNCHANGED <<storeVars, ingestVars, chunkVars, lifeVars, docVars, parseVars>>

\* run: documents.add(_docs)
FileAdd(f) ==
    /\ f <= Len(files)
    /\ pruns[f].pc = "add"
    /\ \E embed_fails \in BOOLEAN, fail_at \in 0..Len(pruns[f].docs) :
        LET r == documents_add(backend, kb, next_id, pruns[f].docs, embed_fails, fail_at) IN
        /\ kb' = r.rows
        /\ next_id' = r.next_id
        /\ pruns' = [pruns EXCEPT ![f] =
                        IF r.threw
                        THEN [Caught(@, IF embed_fails THEN "embed" ELSE "insert")
                                 EXCEPT !.calls = @ \cup r.calls]
                        ELSE [@ EXCEPT !.pc = "complete", !.added = Len(r.ids),
                                       !.calls = @ \cup r.calls]]
    /\ UNCHANGED <<files, backend, ret, clients, ingestVars, chunkVars, lifeVars, docVars, parseVars>>

\* run: update_status(fileId, COMPLETED, { chunks_count: _docs.length })
FileComplete(f) ==
    /\ f <= Len(files)
    /\ pruns[f].pc = "complete"
    /\ \E db_fails \in BOOLEAN :
        IF db_fails
        THEN /\ pruns' = [pruns EXCEPT ![f] = [Caught(@, "update") EXCEPT !.update_failed = TRUE]]
             /\ UNCHANGED files
        ELSE /\ files' = update_status(files, f, COMPLETED, chunks_extra(pruns[f].docs))
             /\ pruns' = [pruns EXCEPT ![f].pc = "done"]
    /\ UNCHANGED <<storeVars, ingestVars, chunkVars, lifeVars, docVars, parseVars>>

\* run, catch: update_status(fileId, FAILED, { error: errorMsg }); when this
\* update fails too, run() rejects
FileCatch(f) ==
    /\ f <= Len(files)
    /\ pruns[f].pc = "catch"
    /\ \E db_fails \in BOOLEAN :
        IF db_fails
        THEN /\ pruns' = [pruns EXCEPT ![f].pc = "rejected", ![f].update_failed = TRUE]
             /\ UNCHANGED files
        ELSE /\ files' = update_status(files, f, FAILED, error_extra(pruns[f].error))
             /\ pruns' = [pruns EXCEPT ![f].pc = "done"]
    /\ UNCHANGED <<storeVars, ingestVars, chunkVars, lifeVars, docVars, parseVars>>

InitFileVars ==
    /\ files = <<>>
    /\ pruns = <<>>

FileIdle == InitFileVars

(***************************************************************************)
(* The Document Service called directly (search API, ingestion).           *)
(***************************************************************************)
\* documents.search: embed the query, then search; neither failure is caught
documents_search(be, rows, q, options, embed_fails) ==
    IF embed_fails THEN [results |-> {<<>>}, threw |-> TRUE, calls |-> {"embed"}]
    ELSE [results |-> vs_search(be, rows, q, options), threw |-> FALSE,
          calls |-> {"embed", "search"}]

\* what the caller of the Document Service sees of one call: the error that
\* reached it (if any), the primitives the call invoked, the store before
DCall(op, embed_fails, threw, error, calls, results, before) ==
    [op |-> op, embed_fails |-> embed_fails, threw |-> threw, error |-> error,
     calls |-> calls, results |-> results, before |-> before]

NoDCall == DCall("none", FALSE, FALSE, None, {}, <<>>, {})

DocIdle == dcall = NoDCall

\* what callers hand to documents.add: KnowledgeDocument has no embedding
KnowledgeDocs == [content : {"c"}, metadata : StoreMetas]
DocBatches == UNION {[1..n -> KnowledgeDocs] : n \in 0..MaxDocs}

\* the options of the searches: the defaults, or the nearest document
NearestOnly == [limit |-> Some(1), min_score |-> None, filter |-> None]
DocOptions == {NoOptions, NearestOnly}

\* the error a call rejects with: the one thrown by the last primitive it
\* invoked, since neither add nor search has a try/catch
Thrown(threw, calls, last) ==
    IF ~threw THEN None
    ELSE IF last \in calls THEN Some("StoreError") ELSE Some("EmbeddingError")

\* documents.add(docs)
DocAdd ==
    /\ dcall = NoDCall
    /\ \E docs \in DocBatches, embed_fails \in BOOLEAN : \E fail_at \in 0..Len(docs) :
        /\ next_id + Len(docs) - 1 <= MaxDocs
        /\ LET r == documents_add(backend, kb, next_id, docs, embed_fails, fail_at) IN
            /\ kb' = r.rows
            /\ next_id' = r.next_id
            /\ dcall' = DCall("add", embed_fails /\ Len(docs) > 0, r.threw,
                              Thrown(r.threw, r.calls, "insert"), r.calls, r.ids, kb)
    /\ UNCHANGED <<backend, ret, clients, ingestVars, chunkVars, lifeVars, fileVars, parseVars>>

\* documents.search(query, options)
DocSearch ==
    /\ dcall = NoDCall
    /\ \E q \in Dirs, options \in DocOptions, embed_fails \in BOOLEAN :
        LET r == documents_search(backend, kb, q, options, embed_fails) IN
        \E res \in r.results :
            dcall' = DCall("search", embed_fails, r.threw,
                           Thrown(r.threw, r.calls, "search"), r.calls, res, kb)
    /\ UNCHANGED <<storeVars, ingestVars, chunkVars, lifeVars, fileVars, parseVars>>

\* the caller takes the result or the error
DocReturn ==
    /\ dcall # NoDCall
    /\ dcall' = NoDCall
    /\ UNCHANGED <<storeVars, ingestVars, chunkVars, lifeVars, fileVars, parseVars>>

(***************************************************************************)
(* The parsers as functions of their input.  A VTT timestamp HH:MM:SS.mmm  *)
(* is the record of its four numbers; an utterance is what parse_vtt makes *)
(* of one cue (its words are left out).                                    *)
(***************************************************************************)
MaxUtterances == 3  \* utterances of one transcript
MaxPages == 3       \* pages pdfParse reports

CHUNK_DURATION_MS == 240000     \* 4 * 60 * 1000
MIN_CHARS_PER_PAGE == 500

Stamp(h, m, sec, ms) == [h |-> h, m |-> m, s |-> sec, ms |-> ms]

\* time_to_ms: hours * 3600000 + minutes * 60000 + seconds * 1000 + ms
time_to_ms(time) == time.h * 3600000 + time.m * 60000 + time.s * 1000 + time.ms

Stamps ==
    {Stamp(0, 0, 0, 0), Stamp(0, 2, 0, 0), Stamp(0, 3, 59, 999), Stamp(0, 4, 0, 0),
     Stamp(0, 4, 0, 1), Stamp(1, 0, 0, 0)}

Speakers == {"Ada", "Bob"}

\* a cue ends where it starts at the earliest; the VTT lists cues by start
VttUtterances ==
    {u \in [start_time : Stamps, end_time : Stamps, speaker : Speakers] :
        \/ u.end_time = u.start_time
        \/ u.end_time = Stamp(1, 0, 0, 0)}

UtteranceLists ==
    UNION {{us \in [1..n -> VttUtterances] :
                \A i \in 1..(n - 1) :
                    time_to_ms(us[i].start_time) <= time_to_ms(us[i + 1].start_time)} :
           n \in 0..MaxUtterances}

\* chunk_utterances without the push of the remaining utterances
RECURSIVE chunk_utterances_no_rest(_, _, _, _, _)
chunk_utterances_no_rest(utterances, k, cs, currentChunk, chunkStartMs) ==
    IF k > Len(utterances) THEN cs
    ELSE LET currentMs == time_to_ms(utterances[k].start_time)
             startMs == IF Len(currentChunk) = 0 THEN currentMs ELSE chunkStartMs IN
         IF Len(currentChunk) > 0 /\ currentMs - startMs >= CHUNK_DURATION_MS
         THEN chunk_utterances_no_rest(utterances, k + 1, Append(cs, currentChunk),
                                       <<utterances[k]>>, currentMs)
         ELSE chunk_utterances_no_rest(utterances, k + 1, cs,
                                       Append(currentChunk, utterances[k]), startMs)

\* chunk_utterances, the for loop from the k-th utterance on and the push of
\* the remaining utterances after it
RECURSIVE chunk_utterances_from(_, _, _, _, _)
chunk_utterances_from(utterances, k, cs, currentChunk, chunkStartMs) ==
    IF k > Len(utterances)
    THEN IF Len(currentChunk) > 0 THEN Append(cs, currentChunk) ELSE cs
    ELSE LET currentMs == time_to_ms(utterances[k].start_time)
             startMs == IF Len(currentChunk) = 0 THEN currentMs ELSE chunkStartMs IN
         IF Len(currentChunk) > 0 /\ currentMs - startMs >= CHUNK_DURATION_MS
         THEN chunk_utterances_from(utterances, k + 1, Append(cs, currentChunk),
                                    <<utterances[k]>>, currentMs)
         ELSE chunk_utterances_from(utterances, k + 1, cs,
                                    Append(currentChunk, utterances[k]), startMs)

\* the chunks pushed inside the loop only
chunk_utterances_unflushed(utterances) ==
    chunk_utterances_no_rest(utterances, 1, <<>>, <<>>, 0)

\* chunk_utterances: chunks = [], currentChunk = [], chunkStartMs = 0
chunk_utterances(utterances) == chunk_utterances_from(utterances, 1, <<>>, <<>>, 0)

\* [...new Set(names)]: the names in the order of their first occurrence
RECURSIVE SetOrder(_)
SetOrder(names) ==
    IF Len(names) = 0 THEN <<>>
    ELSE LET before == SetOrder(SubSeq(names, 1, Len(names) - 1))
             last == names[Len(names)] IN
         IF \E i \in 1..Len(before) : before[i] = last THEN before ELSE Append(before, last)

\* TranscriptParser.parse, from the utterances parse_vtt returned: one
\* document per chunk; a line of the content is its speaker and start time
TranscriptParser_parse(utterances) ==
    IF Len(utterances) = 0 THEN [chunks |-> <<>>, docs |-> <<>>]
    ELSE LET cs == chunk_utterances(utterances) IN
         [chunks |-> cs,
          docs |-> [j \in 1..Len(cs) |->
                      [content |-> [i \in 1..Len(cs[j]) |->
                                      [speaker |-> cs[j][i].speaker,
                                       start_time |-> cs[j][i].start_time]],
                       speakers |-> SetOrder([i \in 1..Len(cs[j]) |-> cs[j][i].speaker]),
                       timestamp_start |-> cs[j][1].start_time,
                       timestamp_end |-> cs[j][Len(cs[j])].end_time]]]

\* Math.floor((offset / fullText.length) * (fullText.length / avgCharsPerPage)) + 1
\* with avgCharsPerPage = Math.max(fullText.length / Math.max(totalPages, 1), 500),
\* in exact arithmetic: the product is offset / avgCharsPerPage
page_of(offset, length, totalPages) ==
    LET pages == Max2(totalPages, 1) IN
    IF length >= MIN_CHARS_PER_PAGE * pages
    THEN (offset * pages) \div length + 1
    ELSE offset \div MIN_CHARS_PER_PAGE + 1

\* parse_pdf, lines 46-60: the page range and index of each chunk
pdf_pages(pdf, totalPages) ==
    LET r == parse_pdf(pdf, 1) IN
    IF r.threw \/ Len(r.docs) = 0 THEN <<>>
    ELSE LET fullText == PdfText(pdf)
             cs == chunk_text(fullText, [chunk_size |-> Some(PDF_CHUNK_SIZE),
                                         chunk_overlap |-> Some(PDF_CHUNK_OVERLAP)]) IN
         [i \in 1..Len(cs) |->
            [page_start |-> page_of(cs[i].start_char, Len(fullText), totalPages),
             page_end |-> page_of(cs[i].end_char, Len(fullText), totalPages),
             total_pages |-> totalPages, chunk_index |-> cs[i].index]]

ParserInputs ==
    {[parser |-> "transcript", utterances |-> us, pdf |-> "none", numpages |-> 0] :
        us \in UtteranceLists}
    \cup {[parser |-> "pdf", utterances |-> <<>>, pdf |-> pdf, numpages |-> n] :
             pdf \in PdfKinds \ {"invalid"}, n \in 0..MaxPages}

NoInput == [parser |-> "none", utterances |-> <<>>, pdf |-> "none", numpages |-> 0]

\* parsers.transcripts.parse(raw)
ParseTranscript ==
    /\ pin.parser = "transcript"
    /\ pout = None
    /\ pout' = Some(TranscriptParser_parse(pin.utterances))
    /\ UNCHANGED <<pin, storeVars, ingestVars, chunkVars, lifeVars, fileVars, docVars>>

\* parse_pdf(pdfBuffer, fileId, filename)
ParsePdf ==
    /\ pin.parser = "pdf"
    /\ pout = None
    /\ pout' = Some([pages |-> pdf_pages(pin.pdf, pin.numpages)])
    /\ UNCHANGED <<pin, storeVars, ingestVars, chunkVars, lifeVars, fileVars, docVars>>

InitParseVars ==
    /\ pin \in ParserInputs
    /\ pout = None

ParseIdle ==
    /\ pin = NoInput
    /\ pout = None

RestIdle == LifeReady /\ FileIdle /\ DocIdle /\ ParseIdle

vars == <<backend, kb, next_id, ret, clients, now, sync, upstream, groups, run,
          text, copts, start, index, chunks, cpc,
          pool, lpc, connected, schema, meta_rows, lret, files, pruns, dcall, pin, pout>>

InitStore == InitStoreVars /\ IngestIdle /\ ChunkIdle /\ RestIdle

NextStore == VSInsert \/ VSSearch \/ VSDelete \/ VSReturn

SpecStore == InitStore /\ [][NextStore]_vars

InitIngest == InitStoreVars /\ InitIngestVars /\ ChunkIdle /\ RestIdle

NextIngest ==
    \/ \E p \in Procs : TRStart(p)
    \/ \E p \in Procs : TRExtract(p)
    \/ \E p \in Procs : TRItem(p)
    \/ \E p \in Procs : TRUpsert(p)
    \/ \E p \in Procs : TRReturn(p)
    \/ \E p \in Procs : DLStart(p)
    \/ \E p \in Procs : DLExtract(p)
    \/ \E p \in Procs : DLDelete(p)
    \/ \E p \in Procs : DLItem(p)
    \/ \E p \in Procs : DLUpsert(p)
    \/ \E p \in Procs : DLReturn(p)

SpecIngest == InitIngest /\ [][NextIngest]_vars

InitChunk == StoreIdle /\ IngestIdle /\ ChunkIdle /\ RestIdle

NextChunk == ChunkCall \/ ChunkIterate \/ ChunkReturn

SpecChunk == InitChunk /\ [][NextChunk]_vars

\* a call that was made runs on: chunk_text is synchronous
SpecChunkLive == SpecChunk /\ WF_vars(ChunkIterate \/ ChunkReturn)

InitLife ==
    /\ backend \in Backends
    /\ kb = {}
    /\ next_id = 1
    /\ ret = NoRet
    /\ clients = 0
    /\ IngestIdle
    /\ ChunkIdle
    /\ InitLifeVars
    /\ FileIdle
    /\ DocIdle /\ ParseIdle

NextLife ==
    \/ Connect
    \/ ConnectOpen
    \/ ConnectVerify
    \/ Close
    \/ CloseDone
    \/ GetVectorStore
    \/ GetMetaStore
    \/ Setup
    \/ \E job \in Jobs : MetaUpsert(job)
    \/ \E job \in Jobs : MetaFindOne(job)
    \/ \E job \in Jobs : GetLastSync(job)

SpecLife == InitLife /\ [][NextLife]_vars

InitFile == InitStoreVars /\ IngestIdle /\ ChunkIdle /\ LifeReady /\ InitFileVars /\ DocIdle /\ ParseIdle

NextFile ==
    \/ FileCreate
    \/ \E f \in 1..MaxFiles : FileDownload(f)
    \/ \E f \in 1..MaxFiles : FileStart(f)
    \/ \E f \in 1..MaxFiles : FileParse(f)
    \/ \E f \in 1..MaxFiles : FileEmpty(f)
    \/ \E f \in 1..MaxFiles : FileAdd(f)
    \/ \E f \in 1..MaxFiles : FileComplete(f)
    \/ \E f \in 1..MaxFiles : FileCatch(f)

SpecFile == InitFile /\ [][NextFile]_vars

\* the event loop runs every continuation that is ready
SpecFileLive == SpecFile /\ WF_vars(NextFile)

(***************************************************************************)
(* SpecDoc: calls of the Document Service on a connected store.            *)
(***************************************************************************)
InitDoc == InitStoreVars /\ IngestIdle /\ ChunkIdle /\ RestIdle

NextDoc == DocAdd \/ DocSearch \/ DocReturn

SpecDoc == InitDoc /\ [][NextDoc]_vars

(***************************************************************************)
(* SpecSync: transcript runs, one after the other, while Microsoft Graph   *)
(* gains transcripts.                                                      *)
(***************************************************************************)
InitSync == InitStoreVars /\ InitSyncVars /\ ChunkIdle /\ RestIdle

NextSync ==
    \/ Arrive
    \/ \E p \in Procs : TRStart(p)
    \/ \E p \in Procs : TRExtract(p)
    \/ \E p \in Procs : TRItem(p)
    \/ \E p \in Procs : TRUpsert(p)
    \/ \E p \in Procs : TRReturn(p)

SpecSync == InitSync /\ [][NextSync]_vars

(***************************************************************************)
(* SpecRefresh: distribution-list runs over a store that already holds     *)
(* transcript, PDF and distribution-list documents.                        *)
(***************************************************************************)
InitRefresh == InitRefreshVars /\ ChunkIdle /\ RestIdle

NextRefresh ==
    \/ \E p \in Procs : DLStart(p)
    \/ \E p \in Procs : DLExtract(p)
    \/ \E p \in Procs : DLDelete(p)
    \/ \E p \in Procs : DLItem(p)
    \/ \E p \in Procs : DLUpsert(p)
    \/ \E p \in Procs : DLReturn(p)

SpecRefresh == InitRefresh /\ [][NextRefresh]_vars

(***************************************************************************)
(* SpecParse: one call of a parser on each input.                          *)
(***************************************************************************)
InitParse ==
    /\ InitStoreVars /\ IngestIdle /\ ChunkIdle
    /\ LifeReady /\ FileIdle /\ DocIdle /\ InitParseVars

NextParse == ParseTranscript \/ ParsePdf

SpecParse == InitParse /\ [][NextParse]_vars

(***************************************************************************)
(* Properties of the vector store (SpecStore).                             *)
(***************************************************************************)
\* the {document, score} a stored row is returned as
ResultOf(be, q, r) ==
    [document |-> [content |-> r.content, metadata |-> r.metadata],
     score |-> Score(be, q, r.embedding)]

\* the value of an option that was given
Given(o) == o[1]

\* C1: on both backends delete with the empty filter returns 0 and removes
\* no stored document.
C1_EmptyFilterDeleteIsNoOp ==
    (ret.op = "delete" /\ ret.filter = EmptyFilter)
        => (ret.count = 0 /\ kb = ret.before)

\* what a delete leaves and returns
Deleted(d) == [rows |-> d.rows, count |-> d.count]

\* C21: the two backends translate a delete filter to the same predicate: a
\* delete removes the documents and returns the count that either backend's
\* delete gives for the same filter on the same stored documents.
C21_DeleteSameOnBothBackends ==
    ret.op = "delete" =>
        /\ Deleted(pg_delete(ret.before, ret.filter)) = Deleted(mongo_delete(ret.before, ret.filter))
        /\ [rows |-> kb, count |-> ret.count] = Deleted(pg_delete(ret.before, ret.filter))

\* res lists n rows of cands in descending score, and no row left out scores
\* higher than a listed one
IsTopOf(be, q, res, cands, n) ==
    \E s \in [1..n -> cands] :
        /\ \A i, j \in 1..n : i # j => s[i] # s[j]
        /\ res = [i \in 1..n |-> ResultOf(be, q, s[i])]
        /\ \A i \in 1..(n - 1) : res[i].score >= res[i + 1].score
        /\ \A r \in cands \ {s[i] : i \in 1..n} :
              \A i \in 1..n : res[i].score >= Score(be, q, r.embedding)

\* C9: search with limit >= 1, min_score and filter given returns, in descending
\* score order, exactly the min(limit, number of qualifying documents)
\* highest-scoring documents among those that match the filter and score at
\* least min_score.
C9_SearchReturnsTopQualifying ==
    (/\ ret.op = "search"
     /\ ret.options.limit # None /\ Given(ret.options.limit) >= 1
     /\ ret.options.min_score # None)
        => LET q == ret.query
               conds == search_conds(backend, ret.options.filter)
               qualifying == {r \in ret.before :
                                 /\ Matches(conds, r.metadata)
                                 /\ Score(backend, q, r.embedding) >= Given(ret.options.min_score)}
               n == Min2(Given(ret.options.limit), Cardinality(qualifying)) IN
           /\ Len(ret.results) = n
           /\ IsTopOf(backend, q, ret.results, qualifying, n)

\* a search with the stored row's own vector, no filter, limit >= 1
RoundTripSearch ==
    /\ ret.op = "search"
    /\ ret.options.filter \in {None, Some(EmptyFilter)}
    /\ ret.options.limit = None \/ Given(ret.options.limit) >= 1
    /\ ret.options.min_score = None \/ Given(ret.options.min_score) <= 1000

Returned(r) ==
    \E i \in 1..Len(ret.results) :
        /\ ret.results[i] = ResultOf(backend, ret.query, r)
        /\ ret.options.min_score # None => ret.results[i].score >= Given(ret.options.min_score)

AroundLoop == {"read", "extract", "delete", "upsert"}

\* an upstream transcript whose handling fails somewhere
Failing(it) == it.kind # "ok"

\* what the run was asked to handle: the upstream items since `since`
InWindow(r) == {k \in 1..Len(upstream) : upstream[k].time >= r.since}

RECURSIVE ChunksOf(_, _)
\* the chunks of the non-failing items among the first n upstream items
ChunksOf(r, n) ==
    IF n = 0 THEN 0
    ELSE ChunksOf(r, n - 1)
         + (IF n \in InWindow(r) /\ ~Failing(upstream[n]) THEN upstream[n].chunks ELSE 0)

\* C2: a transcript run in which some items fail and nothing around the loop
\* fails returns processed = the chunks of the non-failing items and
\* errors = the number of failing items, and has upserted the watermark.
C2_PerItemIsolation ==
    \A p \in Procs :
        LET r == run[p] IN
        (/\ r.job = TRANSCRIPT /\ r.pc = "done" /\ r.fails \cap AroundLoop = {}
         /\ \E k \in InWindow(r) : Failing(upstream[k]))
            => /\ r.result # None
               /\ r.result[1].processed = ChunksOf(r, Len(upstream))
               /\ r.result[1].errors = Cardinality({k \in InWindow(r) : Failing(upstream[k])})
               /\ r.upserted
               /\ sync[TRANSCRIPT] # None

\* C20: on every backend a run that issued its end-of-run watermark write
\* while the database was up has advanced the watermark: the statement
\* PGMetaStore.upsert builds for {last_success, updated_at} assigns no column
\* twice, so the backend never refuses it.
C20_WatermarkWriteValid ==
    \A p \in Procs :
        LET r == run[p] IN
        (r.upsert_calls > 0 /\ "upsert" \notin r.fails) =>
            /\ r.upserted
            /\ "statement" \notin r.fails
            /\ sync[r.job] # None

\* the run has its extraction's result
Extracted(r) == r.pc \in {"loop", "return", "done"} /\ "extract" \notin r.fails

\* the runs so far took since from the watermark and nothing in them failed
WatermarkDriven == \A p \in Procs : ~run[p].explicit /\ run[p].fails = {}

ReturnedTo(r, item) == \E i \in 1..Len(r.raw) : r.raw[i] = item

\* C22: in a sequence of successful watermark-driven transcript runs no
\* transcript is skipped for ever: a transcript upstream that is not older
\* than the first run's since, and that lies before the since of a run that
\* has extracted (the watermark only grows, so before that of every later
\* run too), was returned by the extraction of some run.
C22_NoTranscriptSkipped ==
    WatermarkDriven =>
        \A k \in 1..Len(upstream) :
            (/\ \E p \in Procs : Extracted(run[p]) /\ upstream[k].time >= run[p].since
             /\ \E p \in Procs : Extracted(run[p]) /\ upstream[k].time < run[p].since)
                => \E q \in Procs : ReturnedTo(run[q], upstream[k])

\* the stored documents of transcript item
StoredOf(item) == {r \in kb : r.metadata = TranscriptMeta("meeting " \o ToString(item.id), item.time)}

\* C24: the transcript orchestrator tolerates re-delivery: when the runs so
\* far met no failure, every run that is done returned errors = 0, and the
\* store holds each chunk of a delivered transcript once, however many runs
\* the extractor returned the transcript to.
C24_RedeliveryTolerated ==
    (\A p \in Procs : run[p].job = TRANSCRIPT /\ run[p].fails = {}) =>
        /\ \A p \in Procs : run[p].pc = "done" => run[p].result[1].errors = 0
        /\ \A k \in 1..Len(upstream) :
              /\ Cardinality(StoredOf(upstream[k])) <= upstream[k].chunks
              /\ \A r1, r2 \in StoredOf(upstream[k]) : r1.content = r2.content => r1 = r2

\* the stored documents a distribution-list refresh has no business with
OfOtherSources(rows) == {r \in rows : r.metadata.source_type \in {Some(TRANSCRIPT), Some(PDF)}}

\* C25: a step of a distribution-list run leaves the transcript and pdf
\* documents as they are, and a step that removes documents is the
\* delete({source_type: distribution_list}) of a run whose extraction has
\* succeeded and removes distribution-list documents only, on both backends.
C25_RefreshTouchesOnlyLists ==
    [][/\ OfOtherSources(kb') = OfOtherSources(kb)
       /\ (kb \ kb' # {}) =>
            /\ \E p \in Procs :
                  /\ run[p].pc = "delete"
                  /\ "extract" \notin run[p].fails
                  /\ run'[p].del_calls = run[p].del_calls + 1
            /\ \A r \in kb \ kb' : r.metadata.source_type = Some(DISTRIBUTION_LIST)]_vars

\* a run on the document backend has deleted the old lists and added new
\* ones, and the store holds a transcript and a pdf document
C25_Witness ==
    /\ backend = "mongo"
    /\ \E p \in Procs : run[p].removed > 0 /\ run[p].added > 0
    /\ \E r \in kb : r.metadata.source_type = Some(TRANSCRIPT)
    /\ \E r \in kb : r.metadata.source_type = Some(PDF)

\* the metadata of the documents the parsers build from an item
MetaOfItem(job, item) ==
    IF job = TRANSCRIPT THEN TranscriptMeta("meeting " \o ToString(item.id), item.time)
    ELSE DLMeta(item.displayName)

\* C26: within one run the extracted items are handled one at a time in
\* extraction order: a step that handles an item handles the next one of
\* _raw, after the one before it has resolved or thrown, and stores documents
\* of that item only; documents are stored by such steps only; and the
\* watermark is written only when every item has been handled.
C26_OneItemAtATime ==
    [][\A p \in Procs :
        LET r == run[p] IN
        /\ (r.pc = "loop" /\ run'[p].i # r.i) =>
                /\ r.i <= Len(r.raw)
                /\ run'[p].i = r.i + 1
                /\ run'[p].raw = r.raw
                /\ \A row \in kb' \ kb : row.metadata = MetaOfItem(r.job, r.raw[r.i])
        /\ (run'[p].upsert_calls # r.upsert_calls) =>
                /\ r.pc = "loop"
                /\ r.i = Len(r.raw) + 1
                /\ kb' = kb
        /\ (kb' \ kb # {}) => \E q \in Procs : run[q].pc = "loop" /\ run'[q].i = run[q].i + 1]_vars

\* a run over two items, the add of one of which threw, has written the
\* watermark
C26_Witness ==
    \E p \in Procs :
        /\ Len(run[p].raw) >= 2
        /\ "add" \in run[p].fails
        /\ run[p].processed > 0
        /\ run[p].upsert_calls > 0

\* C3: in both orchestrators a run whose extract() threw has added and
\* deleted no document and written no watermark, counts processed = 0 and
\* errors = 1 with the one failure line, returns just that, and (no other run
\* interfering) leaves the job's sync-state record as it found it.
C3_ExtractFailureIsFatal ==
    \A p \in Procs :
        LET r == run[p] IN
        "extract" \in r.fails
            => /\ r.added = 0 /\ r.del_calls = 0 /\ r.removed = 0
               /\ r.upsert_calls = 0 /\ ~r.upserted
               /\ r.processed = 0 /\ r.errors = 1 /\ r.details = <<"fatal">>
               /\ r.pc \in {"return", "done"}
               /\ r.pc = "done" =>
                    r.result = Some([processed |-> 0, errors |-> 1, details |-> <<"fatal">>])
               /\ (r.pc = "return" /\ ~r.overlap) => sync[r.job] = r.sync0

\* a run stopped by a failed extract() although a watermark and stored
\* documents existed, both still as they were
C3_Witness ==
    \E p \in Procs :
        /\ run[p].pc = "done"
        /\ "extract" \in run[p].fails
        /\ run[p].sync0 # None
        /\ sync[run[p].job] = run[p].sync0
        /\ kb # {}

\* C4: run() of either orchestrator never rejects; whatever failed, a
\* finished run has resolved with {processed, errors, details}.
C4_RunNeverRejects ==
    \A p \in Procs :
        LET r == run[p] IN
        /\ r.outcome # "rejected"
        /\ r.pc = "done" =>
            /\ r.outcome = "resolved"
            /\ r.result = Some([processed |-> r.processed, errors |-> r.errors,
                                details |-> r.details])

\* a transcript run that resolved although the watermark read, an item and
\* the watermark write all failed
C4_Witness ==
    \E p \in Procs :
        /\ run[p].pc = "done"
        /\ run[p].outcome = "resolved"
        /\ {"read", "upsert"} \subseteq run[p].fails
        /\ run[p].failed # {}
        /\ run[p].errors >= 2

\* the distribution_list-tagged rows
DLRows == {r \in kb : r.metadata.source_type = Some(DISTRIBUTION_LIST)}

\* nothing the run did to the store failed
StoreStepsHeld(r) == r.fails \cap {"extract", "delete", "add"} = {}

\* C5: a distribution-list run that no other run overlaps and in which no
\* step fails leaves, when it returns, exactly one distribution_list document
\* per upstream list, all of them stored by this run.
C5_FullRefreshInARow ==
    \A p \in Procs :
        LET r == run[p] IN
        (r.job = DISTRIBUTION_LIST /\ r.pc = "return" /\ ~r.overlap /\ StoreStepsHeld(r))
            => /\ Cardinality(DLRows) = Len(groups)
               /\ \A g \in 1..Len(groups) :
                    Cardinality({d \in DLRows : d.metadata.dl_name = Some(groups[g].displayName)}) = 1
               /\ \A d \in DLRows : d.id >= r.id0
               /\ r.added = Len(groups)

\* the second of two runs in a row has replaced the N >= 1 documents of the first
C5_Witness ==
    \E p, q \in Procs :
        /\ p # q
        /\ run[q].pc = "done" /\ StoreStepsHeld(run[q]) /\ ~run[q].overlap
        /\ run[p].job = DISTRIBUTION_LIST /\ run[p].pc = "return"
        /\ ~run[p].overlap /\ StoreStepsHeld(run[p])
        /\ Len(groups) >= 1
        /\ run[p].removed = Len(groups)
        /\ Cardinality(DLRows) = Len(groups)

BothDLRunsDone ==
    \A p \in Procs :
        run[p].job = DISTRIBUTION_LIST /\ run[p].pc = "done" /\ StoreStepsHeld(run[p])

\* C6: after two distribution-list runs over the same N lists have both
\* completed without error the store holds between N and 2N
\* distribution_list documents, and a number other than N only if the runs
\* overlapped; nothing keeps them from overlapping.
C6_OverlapLeavesUpTo2N ==
    BothDLRunsDone
        => /\ Cardinality(DLRows) >= Len(groups)
           /\ Cardinality(DLRows) <= 2 * Len(groups)
           /\ Cardinality(DLRows) # Len(groups) => \A p \in Procs : run[p].overlap

\* two overlapping runs over N >= 1 lists have left 2N documents
C6_Witness ==
    /\ BothDLRunsDone
    /\ \A p \in Procs : run[p].overlap /\ run[p].errors = 0
    /\ Len(groups) >= 1
    /\ Cardinality(DLRows) = 2 * Len(groups)

(***************************************************************************)
(* Properties of chunk_text (SpecChunk, SpecChunkLive).                    *)
(***************************************************************************)
\* C7: chunk_text terminates for every text and every chunk_size and
\* chunk_overlap, overlap >= chunk_size and overlap >= len(text) included:
\* each loop iteration strictly increases start, never past len(text), and
\* the call returns.
C7_ChunkingTerminates ==
    /\ [][cpc = "loop" /\ start < Len(text) => start' > start /\ start' <= Len(text)]_vars
    /\ (cpc = "loop") ~> (cpc = "done")

\* a call with overlap >= chunk_size and overlap >= len(text) has returned
\* several chunks
C7_Witness ==
    /\ cpc = "done"
    /\ copts.chunk_size # None /\ copts.chunk_overlap # None
    /\ Given(copts.chunk_size) >= 1
    /\ Given(copts.chunk_overlap) >= Given(copts.chunk_size)
    /\ Given(copts.chunk_overlap) >= Len(text)
    /\ Len(chunks) >= 3

\* offset k (0-based) lies in the span of a returned chunk
Covered(k) == \E c \in 1..Len(chunks) : chunks[c].start_char <= k /\ k < chunks[c].end_char

\* consecutive returned chunks overlap by at most n characters
OverlapAtMost(n) ==
    \A c \in 1..(Len(chunks) - 1) : chunks[c].end_char - chunks[c + 1].start_char <= n

\* chunk_size and chunk_overlap are given, overlap < chunk_size
OverlapBelowSize ==
    /\ copts.chunk_size # None /\ copts.chunk_overlap # None
    /\ Given(copts.chunk_overlap) < Given(copts.chunk_size)

\* C8 as stated: with overlap < chunk_size the spans of the returned chunks
\* cover [0, len(text)) with no gap, and consecutive chunks overlap by at most
\* `overlap` characters.
C8_SpansCoverText ==
    (cpc = "done" /\ OverlapBelowSize)
        => /\ \A k \in 0..(Len(text) - 1) : Covered(k)
           /\ OverlapAtMost(Given(copts.chunk_overlap))

\* C8, amended: the spans of the returned chunks cover every character that
\* is not whitespace, in ascending order of start_char, and consecutive
\* chunks overlap by at most the overlap in effect: chunk_overlap, or 200
\* when chunk_overlap is 0 or not given.
C8_SpansCoverAllButWhitespace ==
    cpc = "done"
        => /\ \A k \in 0..(Len(text) - 1) : Covered(k) \/ text[k + 1] \in Whitespace
           /\ \A c \in 1..(Len(chunks) - 1) : chunks[c].start_char < chunks[c + 1].start_char
           /\ OverlapAtMost(IF copts.chunk_overlap = None \/ Given(copts.chunk_overlap) = 0
                            THEN DEFAULT_OVERLAP ELSE Given(copts.chunk_overlap))

\* with overlap < chunk_size, two chunks were returned that overlap, and a
\* window of whitespace between chunks was dropped
C8_Witness ==
    /\ cpc = "done"
    /\ OverlapBelowSize
    /\ Given(copts.chunk_overlap) >= 1
    /\ Len(chunks) >= 2
    /\ \E c \in 1..(Len(chunks) - 1) : chunks[c].end_char > chunks[c + 1].start_char
    /\ \E k \in 0..(Len(text) - 1) : ~Covered(k)

\* the rows the call returned the ids of are the documents it was given
StoredAll(r, rows) ==
    /\ Len(r.ids) = Len(r.docs)
    /\ rows = r.before \cup
            {[id |-> r.ids[i], content |-> r.docs[i].content,
              embedding |-> r.docs[i].embedding, metadata |-> r.docs[i].metadata] :
                i \in 1..Len(r.docs)}
    /\ Cardinality(rows) = Cardinality(r.before) + Len(r.docs)

\* C13: PGVectorStore.insert is all-or-nothing: when a row fails the call
\* throws and no row of the batch is stored, when none fails every row is
\* committed, and either way the pooled client is released
C13_PgInsertAllOrNothing ==
    (backend = "postgres" /\ ret.op = "insert") =>
        /\ clients = 0
        /\ ret.threw => kb = ret.before
        /\ ~ret.threw => StoredAll(ret, kb)

\* the second row of a batch of two failed after the first was inserted
C13_Witness ==
    /\ backend = "postgres"
    /\ ret.op = "insert"
    /\ ret.threw
    /\ Len(ret.docs) = 2
    /\ next_id = 2
    /\ kb = ret.before

\* a search whose filter gives date_from or date_to, with the default limit
\* (room for every stored document) and the default min_score
DateSearch ==
    /\ ret.op = "search"
    /\ ret.options.filter # None
    /\ Given(ret.options.filter).date_from # None \/ Given(ret.options.filter).date_to # None
    /\ ret.options.limit = None
    /\ ret.options.min_score = None

\* the stored documents the search returns
ReturnedRows == {r \in ret.before : Returned(r)}

HighEnough(r) == Score(backend, ret.query, r.embedding) >= DEFAULT_MIN_SCORE

\* the search returns exactly the documents that score high enough and whose
\* meeting_date is in the range In(date, from, to) decides
DateRangeIs(In(_, _, _)) ==
    DateSearch =>
        LET f == Given(ret.options.filter) IN
        /\ \A i \in 1..Len(ret.results) : \E r \in ret.before : ret.results[i] = ResultOf(backend, ret.query, r)
        /\ ReturnedRows =
              {r \in ret.before :
                  /\ HighEnough(r)
                  /\ r.metadata.meeting_date # None
                  /\ In(Given(r.metadata.meeting_date), f.date_from, f.date_to)}

HalfOpen(d, from, to) == (from # None => Given(from) <= d) /\ (to # None => d < Given(to))
Closed(d, from, to) == (from # None => Given(from) <= d) /\ (to # None => d <= Given(to))

\* C18 as stated: a search with date_from and/or date_to returns only
\* documents whose meeting_date d has date_from <= d < date_to, one dated
\* date_from being eligible and one dated date_to excluded, on both backends
C18_DateRangeHalfOpen == DateRangeIs(HalfOpen)

\* C18, amended: the range is closed, date_from <= d <= date_to: documents
\* dated date_from and date_to are both eligible, on both backends
C18_DateRangeClosed == DateRangeIs(Closed)

\* a search over [1, 2] returned a document dated 1 and one dated 2
C18_Witness ==
    /\ DateSearch
    /\ Given(ret.options.filter).date_from = Some(1)
    /\ Given(ret.options.filter).date_to = Some(2)
    /\ \E r1, r2 \in ReturnedRows :
          r1.metadata.meeting_date = Some(1) /\ r2.metadata.meeting_date = Some(2)

(***************************************************************************)
(* Claims about the Store facade and the metadata store (SpecLife).        *)
(***************************************************************************)
Accessors == {"get_vector_store", "get_meta_store"}

\* C11: whenever the store is not connected (connect() has not completed, or
\* close() was called since the last connect) get_vector_store and
\* get_meta_store throw StoreNotConnectedError, and once connect() has
\* succeeded they return an accessor
C11_AccessorOnlyWhenConnected ==
    lret.op \in Accessors =>
        /\ ~lret.connected => lret.result = "StoreNotConnectedError"
        /\ lret.connected => lret.result = "accessor"

Exists(sch, be) == \A i \in 1..Len(SchemaObjects(be)) : sch[SchemaObjects(be)[i]] # None

\* C12: setup(dimensions) is idempotent and never destructive: it drops or
\* alters no object that exists, creates nothing when every object exists
\* (so the schema stays the one the first setup made, whatever dimensions
\* later calls are given), and leaves the stored documents and records alone
C12_SetupIdempotent ==
    [][Setup =>
        /\ \A o \in ObjectNames : schema[o] # None => schema'[o] = schema[o]
        /\ Exists(schema, backend) => schema' = schema
        /\ kb' = kb
        /\ sync' = sync
        /\ meta_rows' = meta_rows]_vars

\* a setup with other dimensions than the ones the schema was created with
\* has resolved, and the schema still holds the first ones
C12_Witness ==
    /\ lret.op = "setup"
    /\ lret.result = "resolved"
    /\ Exists(schema, backend)
    /\ \E o \in Sized : schema[o] # None /\ schema[o] # lret.value

\* C16: get_last_sync never throws: it returns the last_success of the
\* job's record when the read finds one, and 24 hours before now when there
\* is no record or the read fails (the store not being connected included)
C16_LastSyncFallsBack ==
    lret.op = "get_last_sync" =>
        /\ lret.result = "resolved"
        /\ LET call == lret.value[1] IN
            IF ~call.read_fails /\ Matching(meta_rows, call.job) # {}
            THEN call.since \in {r.last_success : r \in Matching(meta_rows, call.job)}
            ELSE call.since = now - FALLBACK_HOURS

\* the job has a record, the store has been closed, and get_last_sync gave
\* the fallback
C16_Witness ==
    /\ lret.op = "get_last_sync"
    /\ ~pool
    /\ Matching(meta_rows, lret.value[1].job) # {}
    /\ lret.value[1].since = now - FALLBACK_HOURS

\* the row carries the filter's job_name and every field of data
Carries(r, job, data) ==
    /\ r.job_name = job
    /\ data.last_success # None => r.last_success = data.last_success[1]
    /\ data.updated_at # None => r.updated_at = data.updated_at[1]

\* C17: MetaStore.upsert(filter, data) is an update-or-insert: after an
\* upsert on a connected store that the database did not refuse, exactly one
\* record matches the filter, it carries the filter's fields and the call's
\* data, find_one returns it, and the records of other filters are as before
C17_UpsertIsUpdateOrInsert ==
    [][\A job \in Jobs :
        (/\ MetaUpsert(job)
         /\ lret'.result # "StoreNotConnectedError"
         /\ ~lret'.value[1].db_fails) =>
            /\ Cardinality(Matching(meta_rows', job)) = 1
            /\ \A r \in Matching(meta_rows', job) :
                    /\ Carries(r, job, lret'.value[1].data)
                    /\ MetaStore_find_one(meta_rows', job) = {Some(r)}
            /\ \A other \in Jobs \ {job} :
                    Matching(meta_rows', other) = Matching(meta_rows, other)]_vars

(***************************************************************************)
(* Claims about the PDF pipeline and the file records (SpecFile).          *)
(***************************************************************************)
ThroughProcessing ==
    {<<PENDING, PROCESSING>>, <<PROCESSING, COMPLETED>>, <<PROCESSING, FAILED>>}

\* every change of a record's status in this step is one of moves, a record
\* that becomes completed carries the number of documents its run added and
\* one that becomes failed carries the message of the error caught
StatusMoves(moves) ==
    \A f \in 1..Len(files) :
        files'[f].status # files[f].status =>
            /\ <<files[f].status, files'[f].status>> \in moves
            /\ files'[f].status = COMPLETED =>
                    files'[f].chunks_count = Some(pruns[f].added)
            /\ files'[f].status = FAILED =>
                    /\ pruns[f].error # ""
                    /\ files'[f].error = Some(pruns[f].error)

\* C14 as stated: the status of a file record only moves pending ->
\* processing -> completed or pending -> processing -> failed, completed
\* with chunks_count = documents added, failed with the error message, and
\* a completed or failed record never changes status again
C14_StatusOnlyThroughProcessing == [][StatusMoves(ThroughProcessing)]_vars

\* C14, amended: as above, and a record also moves pending -> failed, when
\* the update to processing itself fails and the catch block's update does
\* not
C14_StatusMoves == [][StatusMoves(ThroughProcessing \cup {<<PENDING, FAILED>>})]_vars

\* one record completed with the count of a PDF of several chunks, another
\* failed after its embedding was refused
C14_Witness ==
    \E f, g \in 1..Len(files) :
        /\ files[f].status = COMPLETED
        /\ Len(pruns[f].docs) > 1
        /\ files[f].chunks_count = Some(Len(pruns[f].docs))
        /\ files[g].status = FAILED
        /\ files[g].error = Some("embed")

NoText == {"none", "blank"}

\* C15: for a PDF without extractable text (none, or whitespace only)
\* parse_pdf returns [] and does not throw, the run calls neither the
\* embedding provider nor the vector store and stores no document of the
\* file, and it ends with the record completed and chunks_count = 0 (the
\* only error such a run can meet is a status update the file store refuses)
C15_EmptyPdfCompletesWithZero ==
    \A f \in 1..Len(files) :
        pruns[f].pdf \in NoText =>
            /\ parse_pdf(pruns[f].pdf, f) = [docs |-> <<>>, threw |-> FALSE]
            /\ pruns[f].calls = {}
            /\ pruns[f].pc \notin {"add", "complete"}
            /\ pruns[f].error \in {"", "update"}
            /\ \A row \in kb : row.metadata # PdfMeta("file" \o ToString(f))
            /\ (pruns[f].pc = "done" /\ ~pruns[f].update_failed) =>
                    /\ files[f].status = COMPLETED
                    /\ files[f].chunks_count = Some(0)

\* the run of a whitespace-only PDF has returned, while the store holds the
\* documents of another file
C15_Witness ==
    \E f \in 1..Len(files) :
        /\ pruns[f].pdf = "blank"
        /\ pruns[f].pc = "done"
        /\ files[f].status = COMPLETED
        /\ files[f].chunks_count = Some(0)
        /\ kb # {}
(***************************************************************************)
(* Properties of the Document Service (SpecDoc).                           *)
(***************************************************************************)
\* C19: when the embedder throws inside documents.add or documents.search,
\* the call rejects with the embedder's error, the vector store's insert or
\* search has not been invoked, and the store holds what it held before.
C19_EmbeddingErrorPropagates ==
    dcall.embed_fails =>
        /\ dcall.threw
        /\ dcall.error = Some("EmbeddingError")
        /\ dcall.calls \cap {"insert", "search"} = {}
        /\ dcall.results = <<>>
        /\ kb = dcall.before

\* an add whose embed_batch threw, on a store that already holds documents
C19_Witness ==
    /\ dcall.op = "add"
    /\ dcall.embed_fails
    /\ dcall.before # {}

(***************************************************************************)
(* Liveness of the PDF pipeline (SpecFileLive).                            *)
(***************************************************************************)
Settled(f) == f <= Len(files) /\ files[f].status \in {COMPLETED, FAILED}

\* a write of f's status failed
WriteFailed(f) == f <= Len(files) /\ pruns[f].update_failed

\* C23: every file record a PDF entry point creates eventually has status
\* completed or failed, unless a write of the file status itself failed.
C23_EveryFileSettles ==
    \A f \in 1..MaxFiles :
        [](f <= Len(files) => <>(Settled(f) \/ WriteFailed(f)))

(***************************************************************************)
(* Properties of the parsers (SpecParse).                                  *)
(***************************************************************************)
TranscriptParsed == pin.parser = "transcript" /\ pout # None
PdfParsed == pin.parser = "pdf" /\ pout # None

\* the chunks the parser grouped the utterances into
Chunks == pout[1].chunks

\* the start of the chunk's first utterance
ChunkStartMs(chunk) == time_to_ms(chunk[1].start_time)

\* C27: a new chunk begins at an utterance exactly when the current chunk
\* is non-empty and the utterance starts more than 4 minutes after the
\* chunk's first utterance: an utterance inside a chunk starts at most 4
\* minutes after the chunk's start (exactly 4 minutes included), and the
\* first utterance of a later chunk starts more than 4 minutes after the
\* start of the chunk before it.
C27_NewChunkWhenExceeds ==
    TranscriptParsed =>
        \A j \in 1..Len(Chunks) :
            /\ \A i \in 2..Len(Chunks[j]) :
                  time_to_ms(Chunks[j][i].start_time) <= ChunkStartMs(Chunks[j]) + CHUNK_DURATION_MS
            /\ j > 1 =>
                  ChunkStartMs(Chunks[j]) > ChunkStartMs(Chunks[j - 1]) + CHUNK_DURATION_MS

RECURSIVE Flatten(_)
Flatten(cs) == IF Len(cs) = 0 THEN <<>> ELSE cs[1] \o Flatten(Tail(cs))

\* C28: the chunks partition the utterance list in order, none is empty,
\* there is one document per chunk with the start of its first and the end
\* of its last utterance and a duplicate-free list of exactly its speakers,
\* and no utterances give no documents.
C28_ChunksPartitionUtterances ==
    TranscriptParsed =>
        LET docs == pout[1].docs IN
        /\ Flatten(Chunks) = pin.utterances
        /\ \A j \in 1..Len(Chunks) : Len(Chunks[j]) > 0
        /\ Len(docs) = Len(Chunks)
        /\ \A j \in 1..Len(docs) :
              /\ docs[j].timestamp_start = Chunks[j][1].start_time
              /\ docs[j].timestamp_end = Chunks[j][Len(Chunks[j])].end_time
              /\ \A a, b \in 1..Len(docs[j].speakers) :
                    a # b => docs[j].speakers[a] # docs[j].speakers[b]
              /\ {docs[j].speakers[a] : a \in 1..Len(docs[j].speakers)}
                    = {Chunks[j][i].speaker : i \in 1..Len(Chunks[j])}
              /\ Len(docs[j].content) = Len(Chunks[j])
        /\ Len(pin.utterances) = 0 => Len(docs) = 0

\* three utterances in two chunks, the first chunk with one speaker twice
C28_Witness ==
    /\ TranscriptParsed
    /\ Len(pin.utterances) = 3
    /\ Len(Chunks) = 2
    /\ Len(Chunks[1]) = 2
    /\ Chunks[1][1].speaker = Chunks[1][2].speaker

\* C30: every chunk parse_pdf produces from a document with total_pages >= 1
\* has 1 <= page_start <= page_end <= total_pages.
C30_PageRangeValid ==
    (PdfParsed /\ pin.numpages >= 1) =>
        \A i \in 1..Len(pout[1].pages) :
            LET m == pout[1].pages[i] IN
            /\ 1 <= m.page_start
            /\ m.page_start <= m.page_end
            /\ m.page_end <= m.total_pages

\* C29: the chunks of chunk_text carry index 0, 1, ..., n-1 in emission
\* order with no gap, also when whitespace-only windows are dropped; every
\* chunk has a non-empty trimmed text and 0 <= start_char < end_char <=
\* len(text), and start_char strictly increases from one chunk to the next.
C29_ChunksIndexed ==
    \A c \in 1..Len(chunks) :
        /\ chunks[c].index = c - 1
        /\ Len(chunks[c].text) > 0
        /\ chunks[c].text[1] \notin Whitespace
        /\ chunks[c].text[Len(chunks[c].text)] \notin Whitespace
        /\ 0 <= chunks[c].start_char
        /\ chunks[c].start_char < chunks[c].end_char
        /\ chunks[c].end_char <= Len(text)
        /\ c < Len(chunks) => chunks[c].start_char < chunks[c + 1].start_char

\* a call has returned chunks with a dropped whitespace-only window between
\* two of them, and one whose text was trimmed
C29_Witness ==
    /\ cpc = "done"
    /\ \E c \in 1..(Len(chunks) - 1) : chunks[c].end_char < chunks[c + 1].start_char
    /\ \E c \in 1..Len(chunks) :
        Len(chunks[c].text) < chunks[c].end_char - chunks[c].start_char
====
